---- MODULE Spec2Model ----
(***************************************************************************)
(* A model of the SwissCourtRulingCorpus tooling: the CH_BGer section      *)
(* splitter, the dataset creator's citation resolution, filtering,        *)
(* splitting and label persistence, and the pattern extractor's per-court *)
(* accumulator.  Texts are strings; a regular expression is modelled by   *)
(* the set of strings it matches.                                          *)
(***************************************************************************)
EXTENDS Integers, Sequences, FiniteSets, TLC

VARIABLES
    \* ---- CH_BGer (section_splitting_functions.py)
    language,          \* namespace['language']
    paragraphs,        \* the paragraphs iterated so far by associate_sections
    current_section,   \* the cursor of associate_sections
    section_data,      \* section name -> accumulated text
    paragraph_data,    \* list of {text, section} records
    split_pc,          \* "start" | "loop" | "returned" | "raised"
    split_error,       \* the error raised: [kind, section]
    split_result,      \* what CH_BGer returned: <<section_data, paragraph_data>>
    \* ---- DatasetCreator.get_file_number (dataset_creator.py)
    available_bges,    \* self.available_bges, the known-ruling universe (strings)
    fn_citation,       \* the citation string passed to get_file_number
    fn_result,         \* what get_file_number returned
    fn_pc,             \* "init" | "loaded" | "done"
    \* ---- DatasetCreator.save_dataset / create_splits (dataset_creator.py)
    current_year,      \* self.current_year
    dataset,           \* the dataset handed over: a sequence of examples
    split_type,        \* "date-stratified" | "all_train" | anything else
    save_reports,      \* the save_reports flag of save_dataset
    filtered,          \* the dataset after dataset.filter(filter_by_length)
    splits,            \* split name -> sequence of examples
    ds_pc,             \* "build" | "split" | "saved" | "raised"
    \* ---- DatasetCreator.filter_by_length called on its own
    fl_example,        \* the example passed
    fl_how,            \* the how argument
    fl_keep,           \* the value returned
    fl_pc,             \* "call" | "done"
    \* ---- DatasetCreator.save_labels
    labels,            \* the labels argument: a list of label lists
    label_files,       \* file name -> the JSON object written
    lb_pc,             \* "call" | "done" | "raised"
    \* ---- PatternExtractor (pattern_extractor.py)
    pe_dict,           \* self.dict: language -> [count, dict: keyword -> totalcount]
    currentLanguage,   \* self.currentLanguage
    counter,           \* self.counter
    pe_spider,         \* self.spider
    pe_court,          \* number of courts of spider_list started so far
    pe_exports,        \* file "{spider}_{lang}" -> what create_dfs exported
    processed_courts,  \* the courts marked in pattern_extraction.txt
    pe_pc,             \* "idle" | "scan" | "finished" | "crashed"
    sys_argv,          \* sys.argv: 0 -> module, 1 and 2 -> the positional values
    court_rows,        \* history: decisions processed in the current court
    seen_in,           \* history: language -> keyword -> decisions it was a candidate in
    completed_courts,  \* history: courts whose process_one_spider returned
    \* ---- slack_alert (decorators.py)
    sa_calls,          \* history: the calls made to the wrapped function
    slack_messages,    \* the messages post_message_to_slack delivered
    sa_outcomes,       \* what the caller of the wrapper saw, call by call
    \* ---- create_dataset (dataset_creator.py)
    cd_phase,          \* where create_dataset stands: idle, loop, done
    court_list,        \* the courts to create a dataset for
    concatenate,       \* argument: save all courts together in the end
    prepared,          \* what prepare_dataset gives for each court (number of rows)
    cd_next,           \* position in court_list of the next court
    not_created,       \* courts whose dataset could not be created
    created,           \* courts whose dataset was created
    datasets_list,     \* the datasets buffered for the concatenation
    cd_saved,          \* history: the calls of save_dataset
    cd_versions,       \* the version folders v{n} that exist
    \* ---- sub-loaders of get_df (dataset_creator.py)
    sl_loader,         \* the sub-loader called last, none before the first call
    sl_df,             \* the decision dataframe handed to it
    sl_court,          \* its court_string
    sl_table,          \* the rows its side-table query finds
    sl_result,         \* what it handed back
    \* ---- get_df and its cache (dataset_creator.py)
    gd_debug,          \* self.debug: decides the chunk size
    gd_db,             \* the database: the tables of every court
    gd_cache,          \* the cache files and the dataframe each holds
    gd_calls,          \* history: the calls of get_df, what they did and returned
    \* ---- get_citation (dataset_creator.py)
    gc_counter,        \* self.counter: the calls of get_citation so far
    gc_payload,        \* the citations_as_string of the last call
    gc_type,           \* the type of the last call
    gc_outcome,        \* what the last call returned, raised and logged
    \* ---- create_sub_datasets (dataset_creator.py)
    sub_datasets_dict, \* the slices create_sub_datasets returned, by category and name
    sd_pc,             \* create_sub_datasets: idle, done, raised
    \* ---- CH_BGer.get_paragraphs (section_splitting_functions.py)
    gp_elements,       \* the children of divs[0] walked so far
    gp_heading,        \* heading: the held heading text, or None
    gp_paragraph,      \* paragraph: the last paragraph built, or None
    gp_paragraphs,     \* paragraphs: the list get_paragraphs builds
    gp_pc,             \* get_paragraphs: loop, returned, raised
    \* ---- PatternExtractor.apply_regex (pattern_extractor.py)
    rx_before,         \* the dataframe apply_regex was called with
    rx_df,             \* df: the dataframe as rows are merged and dropped
    rx_startingIndex,  \* startingIndex
    rx_examined,       \* the labels of the rows examined as a base
    rx_pc,             \* apply_regex: loop, returned
    \* ---- PatternExtractor.start_progress (pattern_extractor.py)
    sp_argv,           \* sys.argv[1], the cap as the command line gives it
    sp_true_total,     \* what coverage_get_total returns for the court
    processed_amount,  \* self.processed_amount
    total_to_process,  \* self.total_to_process
    sp_pc,             \* start_progress: call, done
    \* ---- DatasetCreator.create_overview (dataset_creator.py)
    ov_files,          \* the files of export_path: name -> what was written
    ov_calls,          \* the calls of create_overview made
    \* ---- PatternExtractor.analyze_structure, the decisions of a scan (pattern_extractor.py)
    sc_decisions       \* the decisions analyze_structure was called for: court and language

splitVars == <<language, paragraphs, current_section, section_data,
               paragraph_data, split_pc, split_error, split_result>>

fnVars == <<available_bges, fn_citation, fn_result, fn_pc>>

dsVars == <<current_year, dataset, split_type, save_reports, filtered, splits, ds_pc>>

flVars == <<fl_example, fl_how, fl_keep, fl_pc>>

lbVars == <<labels, label_files, lb_pc>>

peVars == <<pe_dict, currentLanguage, counter, pe_spider, pe_court, pe_exports,
            processed_courts, pe_pc, sys_argv, court_rows, seen_in, completed_courts>>

saVars == <<sa_calls, slack_messages, sa_outcomes>>

cdVars == <<cd_phase, court_list, concatenate, prepared, cd_next, not_created, created, datasets_list, cd_saved, cd_versions>>

slVars == <<sl_loader, sl_df, sl_court, sl_table, sl_result>>

gdVars == <<gd_debug, gd_db, gd_cache, gd_calls>>

gcVars == <<gc_counter, gc_payload, gc_type, gc_outcome>>

sdVars == <<sub_datasets_dict, sd_pc>>

gpVars == <<gp_elements, gp_heading, gp_paragraph, gp_paragraphs, gp_pc>>

rxVars == <<rx_before, rx_df, rx_startingIndex, rx_examined, rx_pc>>

spVars == <<sp_argv, sp_true_total, processed_amount, total_to_process, sp_pc>>

ovVars == <<ov_files, ov_calls>>

scVars == <<sc_decisions>>

vars == <<splitVars, fnVars, dsVars, flVars, lbVars, peVars, saVars, cdVars, slVars, gdVars,
    gcVars, sdVars, gpVars, rxVars, spVars, ovVars, scVars>>

\* what the actions of one component leave alone: the other components
frameSplit == <<fnVars, dsVars, flVars, lbVars, peVars, saVars, cdVars, slVars, gdVars, gcVars,
    sdVars, gpVars, rxVars, spVars, ovVars, scVars>>

frameFileNumber == <<splitVars, dsVars, flVars, lbVars, peVars, saVars, cdVars, slVars, gdVars,
    gcVars, sdVars, gpVars, rxVars, spVars, ovVars, scVars>>

frameDataset == <<splitVars, fnVars, flVars, lbVars, peVars, saVars, cdVars, slVars, gdVars,
    gcVars, sdVars, gpVars, rxVars, spVars, ovVars, scVars>>

frameFilter == <<splitVars, fnVars, dsVars, lbVars, peVars, saVars, cdVars, slVars, gdVars,
    gcVars, sdVars, gpVars, rxVars, spVars, ovVars, scVars>>

frameLabels == <<splitVars, fnVars, dsVars, flVars, peVars, saVars, cdVars, slVars, gdVars,
    gcVars, sdVars, gpVars, rxVars, spVars, ovVars, scVars>>

framePattern == <<splitVars, fnVars, dsVars, flVars, lbVars, saVars, cdVars, slVars, gdVars,
    gcVars, sdVars, gpVars, rxVars, spVars, ovVars, scVars>>

frameSlack == <<splitVars, fnVars, dsVars, flVars, lbVars, peVars, cdVars, slVars, gdVars,
    gcVars, sdVars, gpVars, rxVars, spVars, ovVars, scVars>>

frameCreateDataset == <<splitVars, fnVars, dsVars, flVars, lbVars, peVars, saVars, slVars,
    gdVars, gcVars, sdVars, gpVars, rxVars, spVars, ovVars, scVars>>

frameLoaders == <<splitVars, fnVars, dsVars, flVars, lbVars, peVars, saVars, cdVars, gdVars,
    gcVars, sdVars, gpVars, rxVars, spVars, ovVars, scVars>>

frameGetDf == <<splitVars, fnVars, dsVars, flVars, lbVars, peVars, saVars, cdVars, slVars,
    gcVars, sdVars, gpVars, rxVars, spVars, ovVars, scVars>>

frameCitation == <<splitVars, fnVars, dsVars, flVars, lbVars, peVars, saVars, cdVars, slVars,
    gdVars, sdVars, gpVars, rxVars, spVars, ovVars, scVars>>

frameSubDatasets == <<splitVars, fnVars, dsVars, flVars, lbVars, peVars, saVars, cdVars,
    slVars, gdVars, gcVars, gpVars, rxVars, spVars, ovVars, scVars>>

\* save_dataset with sub_datasets writes the dataset and the slices
frameSaveWithSubDatasets == <<splitVars, fnVars, flVars, lbVars, peVars, saVars, cdVars,
    slVars, gdVars, gcVars, gpVars, rxVars, spVars, ovVars, scVars>>

frameParagraphs == <<splitVars, fnVars, dsVars, flVars, lbVars, peVars, saVars, cdVars, slVars,
    gdVars, gcVars, sdVars, rxVars, spVars, ovVars, scVars>>

frameRegex == <<splitVars, fnVars, dsVars, flVars, lbVars, peVars, saVars, cdVars, slVars,
    gdVars, gcVars, sdVars, gpVars, spVars, ovVars, scVars>>

frameProgress == <<splitVars, fnVars, dsVars, flVars, lbVars, peVars, saVars, cdVars, slVars,
    gdVars, gcVars, sdVars, gpVars, rxVars, ovVars, scVars>>

frameOverview == <<splitVars, fnVars, dsVars, flVars, lbVars, peVars, saVars, cdVars, slVars,
    gdVars, gcVars, sdVars, gpVars, rxVars, spVars, scVars>>

frameScan == <<splitVars, fnVars, dsVars, flVars, lbVars, peVars, saVars, cdVars, slVars,
    gdVars, gcVars, sdVars, gpVars, rxVars, spVars, ovVars>>

frameAnalyzeStructure == <<splitVars, fnVars, dsVars, flVars, lbVars, saVars, cdVars, slVars,
    gdVars, gcVars, sdVars, gpVars, rxVars, spVars, ovVars>>

(***************************************************************************)
(* Bounds                                                                  *)
(***************************************************************************)
MaxParas == 5

(***************************************************************************)
(* String helpers                                                          *)
(***************************************************************************)
CharAt(s, i) == IF i >= 1 /\ i <= Len(s) THEN SubSeq(s, i, i) ELSE ""

StartsAt(s, i, m) == i >= 1 /\ i + Len(m) - 1 <= Len(s) /\ SubSeq(s, i, i + Len(m) - 1) = m

\* re.search for a pattern without metacharacters: substring search
Contains(s, m) == \E i \in 1..(Len(s) + 1) : StartsAt(s, i, m)

IsDigit(c) == c \in {"0", "1", "2", "3", "4", "5", "6", "7", "8", "9"}

IsSpace(c) == c = " "

Min(S) == CHOOSE x \in S : \A y \in S : x <= y

Max(S) == CHOOSE x \in S : \A y \in S : y <= x

(***************************************************************************)
(* Regular expressions of the pattern extractor.  A pattern is a tree; the *)
(* matcher computes, for a start position, the set of positions at which a *)
(* match of the tree can end, which is what a backtracking matcher         *)
(* explores.  Positions are 1-based; Len(s) + 1 is the end of the text.    *)
(***************************************************************************)
Chars(str) == {SubSeq(str, k, k) : k \in 1..Len(str)}

\* \d
DigitChars == Chars("0123456789")

\* \w for the letters that occur in the texts of the model
WordChars == Chars("abcdefghijklmnopqrstuvwxyzABCDEFGHIJKLMNOPQRSTUVWXYZ_") \cup DigitChars

\* \s for the whitespace that occurs in the texts of the model
SpaceChars == {" "}

\* [A-Z]
UpperChars == Chars("ABCDEFGHIJKLMNOPQRSTUVWXYZ")

Lit(str) == [t |-> "lit", s |-> str]

OneOf(chars) == [t |-> "set", chars |-> chars]

AnyChar == [t |-> "any"]

Bol == [t |-> "bol"]

Eol == [t |-> "eol"]

Cat(list) == [t |-> "seq", of |-> list]

Alt(list) == [t |-> "alt", of |-> list]

\* re{lo,hi}; hi = -1 stands for no upper limit
Rep(re, lo, hi) == [t |-> "rep", of |-> re, lo |-> lo, hi |-> hi]

Opt(re) == Rep(re, 0, 1)

Star(re) == Rep(re, 0, -1)

\* (?!re)
NotAhead(re) == [t |-> "nla", of |-> re]

RECURSIVE Ends(_, _, _), EndsCat(_, _, _, _), EndsRep(_, _, _, _)
Ends(re, s, i) ==
    CASE re.t = "lit" -> IF StartsAt(s, i, re.s) THEN {i + Len(re.s)} ELSE {}
      [] re.t = "set" -> IF CharAt(s, i) \in re.chars THEN {i + 1} ELSE {}
      [] re.t = "any" -> IF i <= Len(s) THEN {i + 1} ELSE {}
      [] re.t = "bol" -> IF i = 1 THEN {i} ELSE {}
      [] re.t = "eol" -> IF i = Len(s) + 1 THEN {i} ELSE {}
      [] re.t = "nla" -> IF Ends(re.of, s, i) = {} THEN {i} ELSE {}
      [] re.t = "alt" -> UNION {Ends(re.of[k], s, i) : k \in 1..Len(re.of)}
      [] re.t = "seq" -> EndsCat(re.of, 1, s, {i})
      [] re.t = "rep" -> EndsRep(re, 0, s, {i})

\* the ends of list[k..] started at any position of from
EndsCat(list, k, s, from) ==
    IF k > Len(list) \/ from = {} THEN from
    ELSE EndsCat(list, k + 1, s, UNION {Ends(list[k], s, i) : i \in from})

\* from holds the ends of n repetitions
EndsRep(re, n, s, from) ==
    (IF n >= re.lo THEN from ELSE {})
    \cup (IF from = {} \/ n = re.hi \/ n > Len(s) THEN {}
          ELSE EndsRep(re, n + 1, s, UNION {Ends(re.of, s, i) : i \in from}))

\* re.search(pattern, text) is not None
regex_search(re, text) == \E i \in 1..(Len(text) + 1) : Ends(re, text, i) # {}

\* re.match(pattern, text) is not None
regex_match(re, text) == Ends(re, text, 1) # {}

(***************************************************************************)
(* CH_BGer                                                                 *)
(***************************************************************************)
\* scrc.dataset_construction.section_splitter.sections, the ordered cursor range
sections == <<"header", "facts", "considerations", "rulings", "footer">>

SectionIndex(s) == CHOOSE i \in 1..Len(sections) : sections[i] = s

\* The name standing for the long-form German date regex of the footer:
\*   \w*,\s\d?\d\.\s(?:Jan(?:uar)?|Feb(?:ruar)?|...|Dez(?:ember)?).*
FooterDatePattern == "<date-de>"

MonthStems == {"Jan", "Feb", "Maer", "Apr", "Mai", "Jun", "Jul", "Aug", "Sep", "Okt", "Nov", "Dez"}

\* the date regex at position i: "," whitespace, one or two digits, ".", whitespace,
\* a month stem (\w* before and .* after match the empty string)
DateAt(s, i) ==
    /\ CharAt(s, i) = ","
    /\ IsSpace(CharAt(s, i + 1))
    /\ \/ /\ IsDigit(CharAt(s, i + 2))
          /\ CharAt(s, i + 3) = "."
          /\ IsSpace(CharAt(s, i + 4))
          /\ \E m \in MonthStems : StartsAt(s, i + 5, m)
       \/ /\ IsDigit(CharAt(s, i + 2))
          /\ IsDigit(CharAt(s, i + 3))
          /\ CharAt(s, i + 4) = "."
          /\ IsSpace(CharAt(s, i + 5))
          /\ \E m \in MonthStems : StartsAt(s, i + 6, m)

re_search(marker, text) ==
    IF marker = FooterDatePattern
    THEN \E i \in 1..Len(text) : DateAt(text, i)
    ELSE Contains(text, marker)

\* Texts are written in ASCII: "ae" stands for the precomposed letter U+00E4
\* and "a~" for the letter a followed by the combining diaeresis U+0308.
\* unicodedata.normalize('NFC', .) composes the latter into the former.
RECURSIVE NFC(_)
NFC(s) ==
    IF Len(s) = 0 THEN s
    ELSE IF StartsAt(s, 1, "a~") THEN "ae" \o NFC(SubSeq(s, 3, Len(s)))
    ELSE SubSeq(s, 1, 1) \o NFC(SubSeq(s, 2, Len(s)))

raw_section_markers ==
    [facts          |-> <<"Sachverhalt:", "hat sich ergeben", "Nach Einsicht">>,
     considerations |-> <<"Erwaegung:", "in Erwaegung", "Erwaegungen:">>,
     rulings        |-> <<"erkennt die Praesidentin", "erkennt der Praesident",
                          "Demnach erkennt", "beschliesst:">>,
     footer         |-> <<FooterDatePattern>>]

section_markers ==
    [key \in DOMAIN raw_section_markers |->
        [k \in 1..Len(raw_section_markers[key]) |-> NFC(raw_section_markers[key][k])]]

MatchesSection(section, paragraph) ==
    \E k \in 1..Len(section_markers[section]) :
        re_search(section_markers[section][k], NFC(paragraph))

\* mutation: the scan starts at the first section instead of after the cursor
update_section_rescan(cur, paragraph) ==
    IF cur = "footer" THEN cur
    ELSE LET hits == {i \in 1..Len(sections) :
                         sections[i] # "header" /\ MatchesSection(sections[i], paragraph)}
         IN  IF hits = {} THEN cur ELSE sections[Min(hits)]

\* mutation: the slice of following sections starts one section too late
update_section_skip_next(cur, paragraph) ==
    IF cur = "footer" THEN cur
    ELSE LET next_section_index == SectionIndex(cur) + 2
             hits == {i \in next_section_index..Len(sections) :
                         MatchesSection(sections[i], paragraph)}
         IN  IF hits = {} THEN cur ELSE sections[Min(hits)]

update_section(cur, paragraph) ==
    IF cur = "footer" THEN cur
    ELSE LET next_section_index == SectionIndex(cur) + 1
             hits == {i \in next_section_index..Len(sections) :
                         MatchesSection(sections[i], paragraph)}
         IN  IF hits = {} THEN cur ELSE sections[Min(hits)]

\* The paragraphs a decision is made of (output of get_paragraphs)
Paragraphs ==
    {"Bundesgericht",
     "Sachverhalt:",
     "Erwaegung:",
     "Das Bundesgericht zieht in Erwa~gung",
     "Demnach erkennt die Praesidentin:",
     "Lausanne, 3. Januar 2020",
     "Nach Einsicht in Erwaegung"}

Languages == {"de", "fr"}

NoError == [kind |-> "none", section |-> "none"]

NoResult == <<>>

\* the variables of CH_BGer when no decision is being split
IdleSplit ==
    /\ language = "de"
    /\ paragraphs = <<>>
    /\ current_section = "header"
    /\ section_data = [key \in {sections[i] : i \in 1..Len(sections)} |-> ""]
    /\ paragraph_data = <<>>
    /\ split_pc = "start"
    /\ split_error = NoError
    /\ split_result = NoResult

\* the variables of get_file_number when no citation is being resolved
IdleFileNumber ==
    /\ available_bges = {}
    /\ fn_citation = ""
    /\ fn_result = ""
    /\ fn_pc = "init"

\* the variables of save_dataset when no dataset is being saved
IdleDataset ==
    /\ current_year = 2021
    /\ dataset = <<>>
    /\ split_type = "all_train"
    /\ save_reports = FALSE
    /\ filtered = <<>>
    /\ splits = <<>>
    /\ ds_pc = "build"

\* the variables of a lone filter_by_length call when none is made
IdleFilter ==
    /\ fl_example = <<>>
    /\ fl_how = "any"
    /\ fl_keep = FALSE
    /\ fl_pc = "call"

\* the variables of save_labels when it is not called
IdleLabels ==
    /\ labels = <<>>
    /\ label_files = <<>>
    /\ lb_pc = "call"

\* the languages self.dict is keyed by
PatternLanguages == {"de", "fr", "it"}

\* sys.argv of "python -m scrc.preprocessors.extractors.pattern_extractor a b"
Argv(first, second) ==
    (0 :> "pattern_extractor") @@ (1 :> first) @@ (2 :> second)

\* PatternExtractor.__init__
PatternConstructed ==
    /\ pe_dict = [lang \in PatternLanguages |-> [count |-> 0, dict |-> <<>>, keys |-> <<>>]]
    /\ currentLanguage = ""
    /\ counter = 0
    /\ pe_spider = ""
    /\ pe_court = 0
    /\ pe_exports = <<>>
    /\ processed_courts = {}
    /\ pe_pc = "idle"
    /\ court_rows = 0
    /\ seen_in = [lang \in PatternLanguages |-> <<>>]
    /\ completed_courts = {}

\* the pattern extractor when it is not run
IdlePattern == PatternConstructed /\ sys_argv = Argv("0", "0")

\* the slack channel and the callers when no wrapped function is called
IdleSlack ==
    /\ sa_calls = <<>>
    /\ slack_messages = <<>>
    /\ sa_outcomes = <<>>

\* create_dataset not called
IdleCreateDataset ==
    /\ cd_phase = "idle"
    /\ court_list = <<>>
    /\ concatenate = FALSE
    /\ prepared = <<>>
    /\ cd_next = 1
    /\ not_created = <<>>
    /\ created = <<>>
    /\ datasets_list = <<>>
    /\ cd_saved = <<>>
    /\ cd_versions = {}

\* no sub-loader called
IdleLoaders ==
    /\ sl_loader = "none"
    /\ sl_df = [columns |-> {}, rows |-> <<>>]
    /\ sl_court = ""
    /\ sl_table = [columns |-> {}, rows |-> <<>>]
    /\ sl_result = [raised |-> "", df |-> [columns |-> {}, rows |-> <<>>]]

\* get_df not called, nothing cached
IdleGetDf ==
    /\ gd_debug = FALSE
    /\ gd_db = <<>>
    /\ gd_cache = <<>>
    /\ gd_calls = <<>>

\* get_citation not called
IdleCitation ==
    /\ gc_counter = 0
    /\ gc_payload = ""
    /\ gc_type = ""
    /\ gc_outcome = [raised |-> "", cits |-> <<>>, logged |-> <<>>]

\* create_sub_datasets not called
IdleSubDatasets ==
    /\ sub_datasets_dict = <<>>
    /\ sd_pc = "idle"

\* get_paragraphs before the first element
IdleParagraphs ==
    /\ gp_elements = <<>>
    /\ gp_heading = [none |-> TRUE, text |-> ""]
    /\ gp_paragraph = [none |-> TRUE, text |-> ""]
    /\ gp_paragraphs = <<>>
    /\ gp_pc = "loop"

\* apply_regex not called
IdleRegex ==
    /\ rx_before = <<>>
    /\ rx_df = <<>>
    /\ rx_startingIndex = 0
    /\ rx_examined = <<>>
    /\ rx_pc = "loop"

\* start_progress not called
IdleProgress ==
    /\ sp_argv = "0"
    /\ sp_true_total = 0
    /\ processed_amount = 0
    /\ total_to_process = 0
    /\ sp_pc = "call"

\* create_overview not called, no overview file
IdleOverview ==
    /\ ov_files = <<>>
    /\ ov_calls = 0

\* no decision analysed
IdleScan == sc_decisions = <<>>

\* every component but one as constructed
RestIdleSplit == IdleFileNumber /\ IdleDataset /\ IdleFilter /\ IdleLabels /\ IdlePattern /\
    IdleSlack /\ IdleCreateDataset /\ IdleLoaders /\ IdleGetDf /\ IdleCitation /\
    IdleSubDatasets /\ IdleParagraphs /\ IdleRegex /\ IdleProgress /\ IdleOverview /\ IdleScan

RestIdleFileNumber == IdleSplit /\ IdleDataset /\ IdleFilter /\ IdleLabels /\ IdlePattern /\
    IdleSlack /\ IdleCreateDataset /\ IdleLoaders /\ IdleGetDf /\ IdleCitation /\
    IdleSubDatasets /\ IdleParagraphs /\ IdleRegex /\ IdleProgress /\ IdleOverview /\ IdleScan

RestIdleDataset == IdleSplit /\ IdleFileNumber /\ IdleFilter /\ IdleLabels /\ IdlePattern /\
    IdleSlack /\ IdleCreateDataset /\ IdleLoaders /\ IdleGetDf /\ IdleCitation /\
    IdleSubDatasets /\ IdleParagraphs /\ IdleRegex /\ IdleProgress /\ IdleOverview /\ IdleScan

RestIdleFilter == IdleSplit /\ IdleFileNumber /\ IdleDataset /\ IdleLabels /\ IdlePattern /\
    IdleSlack /\ IdleCreateDataset /\ IdleLoaders /\ IdleGetDf /\ IdleCitation /\
    IdleSubDatasets /\ IdleParagraphs /\ IdleRegex /\ IdleProgress /\ IdleOverview /\ IdleScan

RestIdleLabels == IdleSplit /\ IdleFileNumber /\ IdleDataset /\ IdleFilter /\ IdlePattern /\
    IdleSlack /\ IdleCreateDataset /\ IdleLoaders /\ IdleGetDf /\ IdleCitation /\
    IdleSubDatasets /\ IdleParagraphs /\ IdleRegex /\ IdleProgress /\ IdleOverview /\ IdleScan

RestIdlePattern == IdleSplit /\ IdleFileNumber /\ IdleDataset /\ IdleFilter /\ IdleLabels /\
    IdleSlack /\ IdleCreateDataset /\ IdleLoaders /\ IdleGetDf /\ IdleCitation /\
    IdleSubDatasets /\ IdleParagraphs /\ IdleRegex /\ IdleProgress /\ IdleOverview /\ IdleScan

RestIdleSlack == IdleSplit /\ IdleFileNumber /\ IdleDataset /\ IdleFilter /\ IdleLabels /\
    IdlePattern /\ IdleCreateDataset /\ IdleLoaders /\ IdleGetDf /\ IdleCitation /\
    IdleSubDatasets /\ IdleParagraphs /\ IdleRegex /\ IdleProgress /\ IdleOverview /\ IdleScan

RestIdleCreateDataset == IdleSplit /\ IdleFileNumber /\ IdleDataset /\ IdleFilter /\
    IdleLabels /\ IdlePattern /\ IdleSlack /\ IdleLoaders /\ IdleGetDf /\ IdleCitation /\
    IdleSubDatasets /\ IdleParagraphs /\ IdleRegex /\ IdleProgress /\ IdleOverview /\ IdleScan

RestIdleLoaders == IdleSplit /\ IdleFileNumber /\ IdleDataset /\ IdleFilter /\ IdleLabels /\
    IdlePattern /\ IdleSlack /\ IdleCreateDataset /\ IdleGetDf /\ IdleCitation /\
    IdleSubDatasets /\ IdleParagraphs /\ IdleRegex /\ IdleProgress /\ IdleOverview /\ IdleScan

RestIdleGetDf == IdleSplit /\ IdleFileNumber /\ IdleDataset /\ IdleFilter /\ IdleLabels /\
    IdlePattern /\ IdleSlack /\ IdleCreateDataset /\ IdleLoaders /\ IdleCitation /\
    IdleSubDatasets /\ IdleParagraphs /\ IdleRegex /\ IdleProgress /\ IdleOverview /\ IdleScan

RestIdleCitation == IdleSplit /\ IdleFileNumber /\ IdleDataset /\ IdleFilter /\ IdleLabels /\
    IdlePattern /\ IdleSlack /\ IdleCreateDataset /\ IdleLoaders /\ IdleGetDf /\
    IdleSubDatasets /\ IdleParagraphs /\ IdleRegex /\ IdleProgress /\ IdleOverview /\ IdleScan

RestIdleSubDatasets == IdleSplit /\ IdleFileNumber /\ IdleDataset /\ IdleFilter /\
    IdleLabels /\ IdlePattern /\ IdleSlack /\ IdleCreateDataset /\ IdleLoaders /\ IdleGetDf /\
    IdleCitation /\ IdleParagraphs /\ IdleRegex /\ IdleProgress /\ IdleOverview /\ IdleScan

RestIdleParagraphs == IdleSplit /\ IdleFileNumber /\ IdleDataset /\ IdleFilter /\ IdleLabels /\
    IdlePattern /\ IdleSlack /\ IdleCreateDataset /\ IdleLoaders /\ IdleGetDf /\
    IdleCitation /\ IdleSubDatasets /\ IdleRegex /\ IdleProgress /\ IdleOverview /\ IdleScan

RestIdleRegex == IdleSplit /\ IdleFileNumber /\ IdleDataset /\ IdleFilter /\ IdleLabels /\
    IdlePattern /\ IdleSlack /\ IdleCreateDataset /\ IdleLoaders /\ IdleGetDf /\
    IdleCitation /\ IdleSubDatasets /\ IdleParagraphs /\ IdleProgress /\ IdleOverview /\
    IdleScan

RestIdleProgress == IdleSplit /\ IdleFileNumber /\ IdleDataset /\ IdleFilter /\ IdleLabels /\
    IdlePattern /\ IdleSlack /\ IdleCreateDataset /\ IdleLoaders /\ IdleGetDf /\
    IdleCitation /\ IdleSubDatasets /\ IdleParagraphs /\ IdleRegex /\ IdleOverview /\ IdleScan

RestIdleOverview == IdleSplit /\ IdleFileNumber /\ IdleDataset /\ IdleFilter /\ IdleLabels /\
    IdlePattern /\ IdleSlack /\ IdleCreateDataset /\ IdleLoaders /\ IdleGetDf /\
    IdleCitation /\ IdleSubDatasets /\ IdleParagraphs /\ IdleRegex /\ IdleProgress /\ IdleScan

RestIdleScan == IdleSplit /\ IdleFileNumber /\ IdleDataset /\ IdleFilter /\ IdleLabels /\
    IdlePattern /\ IdleSlack /\ IdleCreateDataset /\ IdleLoaders /\ IdleGetDf /\
    IdleCitation /\ IdleSubDatasets /\ IdleParagraphs /\ IdleRegex /\ IdleProgress /\
    IdleOverview

InitSplit ==
    /\ language \in Languages
    /\ paragraphs = <<>>
    /\ current_section = "header"
    /\ section_data = [key \in {sections[i] : i \in 1..Len(sections)} |-> ""]
    /\ paragraph_data = <<>>
    /\ split_pc = "start"
    /\ split_error = NoError
    /\ split_result = NoResult

\* CH_BGer entry: the language guard
CheckLanguage ==
    /\ split_pc = "start"
    /\ IF language # "de"
       THEN /\ split_pc' = "raised"
            /\ split_error' = [kind |-> "unsupported_language", section |-> "none"]
       ELSE /\ split_pc' = "loop"
            /\ UNCHANGED split_error
    /\ UNCHANGED <<language, paragraphs, current_section, section_data, paragraph_data,
                   split_result>>
    /\ UNCHANGED frameSplit

\* one iteration of the loop of associate_sections
AssociateParagraph(paragraph) ==
    /\ split_pc = "loop"
    /\ Len(paragraphs) < MaxParas
    /\ LET new_section == update_section(current_section, paragraph)
       IN  /\ current_section' = new_section
           /\ section_data' = [section_data EXCEPT ![new_section] = @ \o paragraph \o " "]
           /\ paragraph_data' = Append(paragraph_data, [text |-> paragraph, section |-> new_section])
    /\ paragraphs' = Append(paragraphs, paragraph)
    /\ UNCHANGED <<language, split_pc, split_error, split_result>>
    /\ UNCHANGED frameSplit

\* mutation: a stuck cursor is logged and the partial result is returned
FinishSections_partial ==
    /\ split_pc = "loop"
    /\ split_pc' = "returned"
    /\ split_result' = <<section_data, paragraph_data>>
    /\ UNCHANGED <<language, paragraphs, current_section, section_data, paragraph_data,
                   split_error>>
    /\ UNCHANGED frameSplit

\* the end of the loop of associate_sections, and the return of CH_BGer
FinishSections ==
    /\ split_pc = "loop"
    /\ IF current_section # "footer"
       THEN /\ split_pc' = "raised"
            /\ split_error' = [kind |-> "stuck", section |-> current_section]
            /\ UNCHANGED split_result
       ELSE /\ split_pc' = "returned"
            /\ split_result' = <<section_data, paragraph_data>>
            /\ UNCHANGED split_error
    /\ UNCHANGED <<language, paragraphs, current_section, section_data, paragraph_data>>
    /\ UNCHANGED frameSplit

NextSplit ==
    \/ CheckLanguage
    \/ \E paragraph \in Paragraphs : AssociateParagraph(paragraph)
    \/ FinishSections

\* a CH_BGer call on its own: every other component stays as constructed
InitSplitOnly ==
    /\ InitSplit
    /\ RestIdleSplit

SpecSplit == InitSplitOnly /\ [][NextSplit]_vars

(***************************************************************************)
(* Claims about CH_BGer                                                    *)
(***************************************************************************)
SplitFinished == split_pc \in {"returned", "raised"} /\ language = "de"

\* C1: every paragraph is recorded once, with one section of the cursor range,
\* and the recorded sections never move backward in the order header < facts <
\* considerations < rulings < footer; after a footer paragraph every later
\* paragraph is footer.
C1_ForwardOnly ==
    /\ Len(paragraph_data) = Len(paragraphs)
    /\ \A i \in 1..Len(paragraph_data) :
          /\ paragraph_data[i].text = paragraphs[i]
          /\ \E k \in 1..Len(sections) : paragraph_data[i].section = sections[k]
    /\ \A i \in 1..(Len(paragraph_data) - 1) :
          SectionIndex(paragraph_data[i].section) <= SectionIndex(paragraph_data[i + 1].section)
    /\ \A i \in 1..Len(paragraph_data) : \A j \in i..Len(paragraph_data) :
          paragraph_data[i].section = "footer" => paragraph_data[j].section = "footer"

\* a footer paragraph followed by a paragraph that carries a facts marker
C1_Witness ==
    \E i \in 1..(Len(paragraph_data) - 1) :
        /\ i > 2
        /\ paragraph_data[1].section = "header"
        /\ paragraph_data[2].section = "considerations"
        /\ paragraph_data[i].section = "footer"
        /\ MatchesSection("facts", paragraph_data[i + 1].text)
        /\ paragraph_data[i + 1].section = "footer"

\* C2: CH_BGer raises the stuck-at error, naming the cursor's section, exactly
\* when the cursor after the last paragraph is not footer (the empty sequence
\* is stuck at header), and returns (section_data, paragraph_data) exactly when
\* the cursor is footer; a raise leaves no result.
C2_StuckOrReturned ==
    SplitFinished =>
        /\ (split_pc = "raised") <=> (current_section # "footer")
        /\ (split_pc = "returned") <=> (current_section = "footer")
        /\ split_pc = "raised" =>
              /\ split_error = [kind |-> "stuck", section |-> current_section]
              /\ split_result = NoResult
        /\ split_pc = "returned" =>
              /\ split_error = NoError
              /\ split_result = <<section_data, paragraph_data>>

C2_Witness ==
    /\ split_pc = "raised"
    /\ split_error = [kind |-> "stuck", section |-> "considerations"]
    /\ Len(paragraphs) >= 2
    /\ split_result = NoResult

\* the paragraph sequences of C3: a "Sachverhalt:" paragraph, later an
\* "Erwaegung:" paragraph, later an "erkennt die Praesidentin" paragraph, and a
\* trailing date paragraph
MarkersInOrder(ps, f, c, r) ==
    /\ 1 <= f /\ f < c /\ c < r /\ r < Len(ps)
    /\ re_search("Sachverhalt:", NFC(ps[f]))
    /\ re_search("Erwaegung:", NFC(ps[c]))
    /\ re_search("erkennt die Praesidentin", NFC(ps[r]))
    /\ re_search(FooterDatePattern, NFC(ps[Len(ps)]))

HappyPath(ps) == \E f, c, r \in 1..Len(ps) : MarkersInOrder(ps, f, c, r)

MatchesAny(secs, paragraph) == \E s \in secs : MatchesSection(s, paragraph)

\* the marker paragraphs are the first to match their section or a later one,
\* and at least one paragraph precedes the facts paragraph
CleanPath(ps) ==
    \E f, c, r \in 1..Len(ps) :
        /\ MarkersInOrder(ps, f, c, r)
        /\ f > 1
        /\ \A i \in 1..(f - 1) :
              ~MatchesAny({"facts", "considerations", "rulings", "footer"}, ps[i])
        /\ \A i \in (f + 1)..(c - 1) :
              ~MatchesAny({"considerations", "rulings", "footer"}, ps[i])
        /\ \A i \in (c + 1)..(r - 1) :
              ~MatchesAny({"rulings", "footer"}, ps[i])

AllSectionsNonEmpty == \A i \in 1..Len(sections) : section_data[sections[i]] # ""

DigitChar(d) == SubSeq("0123456789", d + 1, d + 1)

DigitVal(c) == CHOOSE d \in 0..9 : DigitChar(d) = c

RECURSIVE NatToStr(_)
NatToStr(n) == IF n < 10 THEN DigitChar(n) ELSE NatToStr(n \div 10) \o DigitChar(n % 10)

\* str() of an int, as an f-string renders it
IntToStr(n) == IF n < 0 THEN "-" \o NatToStr(0 - n) ELSE NatToStr(n)

RECURSIVE StrToNat(_)
StrToNat(s) ==
    IF Len(s) = 0 THEN 0
    ELSE StrToNat(SubSeq(s, 1, Len(s) - 1)) * 10 + DigitVal(SubSeq(s, Len(s), Len(s)))

\* int() of a decimal literal
StrToInt(s) == IF StartsAt(s, 1, "-") THEN 0 - StrToNat(SubSeq(s, 2, Len(s))) ELSE StrToNat(s)

\* str.split(): the fields between blanks
RECURSIVE SplitFields(_, _)
SplitFields(s, field) ==
    IF Len(s) = 0 THEN (IF field = "" THEN <<>> ELSE <<field>>)
    ELSE IF IsSpace(SubSeq(s, 1, 1))
         THEN (IF field = "" THEN <<>> ELSE <<field>>) \o SplitFields(SubSeq(s, 2, Len(s)), "")
         ELSE SplitFields(SubSeq(s, 2, Len(s)), field \o SubSeq(s, 1, 1))

\* RulingCitation(text, 'de'): year, volume and page of "[BGE] {year} {volume} {page}"
RulingCitation(text) ==
    LET fields == SplitFields(text, "")
        f == IF Len(fields) > 0 /\ fields[1] = "BGE" THEN Tail(fields) ELSE fields
    IN  [year |-> StrToInt(f[1]), volume |-> f[2], page_number |-> StrToInt(f[3])]

\* RulingCitation.cit_string() and str(): the canonical form
cit_string(c) ==
    "BGE " \o IntToStr(c.year) \o " " \o c.volume \o " " \o IntToStr(c.page_number)

get_file_number(citation, bges) ==
    LET found_citation == RulingCitation(citation)
        year == found_citation.year
        volume == found_citation.volume
        page_number == found_citation.page_number
        matches == {match \in bges : Contains(match, "BGE " \o IntToStr(year) \o " " \o volume)}
        pages == {p \in {RulingCitation(match).page_number : match \in matches} :
                     -1 < p /\ p <= page_number}
        new_page_number == IF pages = {} THEN -1 ELSE Max(pages)
    IN  IF cit_string(found_citation) \in bges
        THEN cit_string(found_citation)
        ELSE IF page_number - new_page_number < 20
             THEN cit_string(RulingCitation(
                      IntToStr(year) \o " " \o volume \o " " \o IntToStr(new_page_number)))
             ELSE cit_string(found_citation)

\* the rulings load_rulings may find in the database, and the citations queried
BgeYears == {120, 121}

BgeVolumes == {"II", "III"}

KnownPages == {5, 10}

CitedPages == {5, 8, 24, 30}

KnownRulings ==
    {cit_string([year |-> y, volume |-> v, page_number |-> n]) :
        y \in BgeYears, v \in BgeVolumes, n \in KnownPages}

CitedRulings ==
    {cit_string([year |-> y, volume |-> v, page_number |-> n]) :
        y \in BgeYears, v \in BgeVolumes, n \in CitedPages}

InitFileNumber == IdleFileNumber

\* load_rulings: the universe is what the database holds
LoadRulings(bges) ==
    /\ fn_pc = "init"
    /\ available_bges' = bges
    /\ fn_pc' = "loaded"
    /\ UNCHANGED <<fn_citation, fn_result>>
    /\ UNCHANGED frameFileNumber

GetFileNumber(citation) ==
    /\ fn_pc = "loaded"
    /\ fn_citation' = citation
    /\ fn_result' = get_file_number(citation, available_bges)
    /\ fn_pc' = "done"
    /\ UNCHANGED available_bges
    /\ UNCHANGED frameFileNumber

NextFileNumber ==
    \/ \E bges \in SUBSET KnownRulings : LoadRulings(bges)
    \/ \E citation \in CitedRulings : GetFileNumber(citation)

InitFileNumberOnly ==
    /\ InitFileNumber
    /\ RestIdleFileNumber

SpecFileNumber == InitFileNumberOnly /\ [][NextFileNumber]_vars

\* the entries of the universe with the year and the volume of the query and
\* a page not beyond the query's page
SameVolumeBefore(q, bges) ==
    {c \in {RulingCitation(match) : match \in bges} :
        c.year = q.year /\ c.volume = q.volume /\ c.page_number <= q.page_number}

NearestBefore(q, bges) ==
    CHOOSE c \in SameVolumeBefore(q, bges) :
        \A d \in SameVolumeBefore(q, bges) : d.page_number <= c.page_number

\* C4: for a citation outside the universe, get_file_number returns the entry
\* with the same year and volume and the largest page not exceeding the query's
\* page when the gap is below 20, and otherwise (gap of 20 or more, or no such
\* entry) the query's own canonical form.
C4_NearestSameVolume ==
    (fn_pc = "done" /\ cit_string(RulingCitation(fn_citation)) \notin available_bges) =>
        LET q == RulingCitation(fn_citation)
        IN  IF /\ SameVolumeBefore(q, available_bges) # {}
               /\ q.page_number - NearestBefore(q, available_bges).page_number < 20
            THEN fn_result = cit_string(NearestBefore(q, available_bges))
            ELSE fn_result = cit_string(q)

(***************************************************************************)
(* DatasetCreator: filter_by_length, create_splits, split_date_stratified, *)
(* save_dataset                                                            *)
(***************************************************************************)
\* self.minFeatureColLength
minFeatureColLength == 10

\* self.start_years
start_years == [train |-> 2002, validation |-> 2016, test |-> 2018, secret_test |-> 2020]

\* get_feature_col_names(): the lower-cased names of self.feature_cols
feature_col_names == <<"facts", "considerations">>

num_tokens_bert(example, feature_col) == example[feature_col \o "_num_tokens_bert"]

\* mutation: the how argument is ignored and 'any' is applied
filter_by_length_any(example, how) ==
    Cardinality({k \in 1..Len(feature_col_names) :
        num_tokens_bert(example, feature_col_names[k]) > minFeatureColLength}) > 0

filter_by_length(example, how) ==
    LET keep_counter ==
            Cardinality({k \in 1..Len(feature_col_names) :
                num_tokens_bert(example, feature_col_names[k]) > minFeatureColLength})
    IN  IF how = "all" THEN keep_counter = Len(feature_col_names)
        ELSE IF how = "any" THEN keep_counter > 0
        ELSE FALSE

\* x in range(lo, hi)
in_range(x, lo, hi) == lo <= x /\ x < hi

\* Dataset.filter with a predicate on the year
FilterYears(ds, lo, hi) ==
    LET keep(x) == in_range(x.year, lo, hi) IN SelectSeq(ds, keep)

\* mutation: the last range stops at current_year instead of current_year + 1
split_date_stratified_short(ds, years, this_year) ==
    [train       |-> FilterYears(ds, years["train"], years["validation"]),
     validation  |-> FilterYears(ds, years["validation"], years["test"]),
     test        |-> FilterYears(ds, years["test"], years["secret_test"]),
     secret_test |-> FilterYears(ds, years["secret_test"], this_year)]

split_date_stratified(ds, years, this_year) ==
    [train       |-> FilterYears(ds, years["train"], years["validation"]),
     validation  |-> FilterYears(ds, years["validation"], years["test"]),
     test        |-> FilterYears(ds, years["test"], years["secret_test"]),
     secret_test |-> FilterYears(ds, years["secret_test"], this_year + 1)]

\* concatenate_datasets(list(splits.values())), in insertion order
concatenate_splits(sp) ==
    IF DOMAIN sp = {"train"} THEN sp["train"]
    ELSE sp["train"] \o sp["validation"] \o sp["test"] \o sp["secret_test"]

SplitError == [error |-> "Please supply a valid split_type"]

create_splits(ds, type, include_all, this_year) ==
    LET base == IF type = "date-stratified"
                THEN split_date_stratified(ds, start_years, this_year)
                ELSE [train |-> ds]
    IN  IF type \notin {"date-stratified", "all_train"} THEN SplitError
        ELSE IF include_all THEN ("all" :> concatenate_splits(base)) @@ base
        ELSE base

Example(year, facts_tokens, considerations_tokens) ==
    [year |-> year,
     facts_num_tokens_bert |-> facts_tokens,
     considerations_num_tokens_bert |-> considerations_tokens]

MaxDated == 3

MaxSized == 2

CurrentYears == {2021, 2023}

SplitYears == {2001, 2002, 2015, 2016, 2017, 2018, 2019, 2020, 2021, 2022, 2023, 2024}

DatedExamples == {Example(y, 11, 11) : y \in SplitYears}

SizedYears == {2001, 2019}

SizedTokens == {9, 10, 11}

SizedExamples == {Example(y, a, b) : y \in SizedYears, a \in SizedTokens, b \in SizedTokens}

SplitTypes == {"date-stratified", "all_train", "by-court"}

InitDataset ==
    /\ current_year \in CurrentYears
    /\ dataset = <<>>
    /\ split_type \in SplitTypes
    /\ save_reports \in BOOLEAN
    /\ filtered = <<>>
    /\ splits = <<>>
    /\ ds_pc = "build"

\* prepare_dataset delivers one more example
AddExample(example, max) ==
    /\ ds_pc = "build"
    /\ Len(dataset) < max
    /\ dataset' = Append(dataset, example)
    /\ UNCHANGED <<current_year, split_type, save_reports, filtered, splits, ds_pc>>
    /\ UNCHANGED frameDataset

\* create_splits on the date-stratified branch
SplitDateStratified ==
    /\ ds_pc = "build"
    /\ split_type = "date-stratified"
    /\ splits' = split_date_stratified(dataset, start_years, current_year)
    /\ ds_pc' = "split"
    /\ UNCHANGED <<current_year, dataset, split_type, save_reports, filtered>>
    /\ UNCHANGED frameDataset

\* save_dataset: the length filter, then the splits
SaveDataset ==
    /\ ds_pc = "build"
    /\ LET keep(example) == filter_by_length(example, "all")
           kept == SelectSeq(dataset, keep)
           result == create_splits(kept, split_type, save_reports, current_year)
       IN  /\ filtered' = kept
           /\ IF result = SplitError
              THEN ds_pc' = "raised" /\ UNCHANGED splits
              ELSE ds_pc' = "saved" /\ splits' = result
    /\ UNCHANGED <<current_year, dataset, split_type, save_reports>>
    /\ UNCHANGED frameDataset

NextDateSplit ==
    \/ \E example \in DatedExamples : AddExample(example, MaxDated)
    \/ SplitDateStratified

InitDateSplit ==
    /\ RestIdleDataset
    /\ InitDataset /\ split_type = "date-stratified" /\ save_reports = FALSE

SpecDateSplit == InitDateSplit /\ [][NextDateSplit]_vars

NextSaveDataset ==
    \/ \E example \in SizedExamples : AddExample(example, MaxSized)
    \/ SaveDataset

InitSaveDataset ==
    /\ RestIdleDataset
    /\ InitDataset

SpecSaveDataset == InitSaveDataset /\ [][NextSaveDataset]_vars

InSplit(example, name) == \E k \in 1..Len(splits[name]) : splits[name][k] = example

\* C5: with the start years 2002/2016/2018/2020 an example of year y is in train
\* iff 2002 <= y < 2016, in validation iff 2016 <= y < 2018, in test iff
\* 2018 <= y < 2020 and in secret_test iff 2020 <= y <= current_year; so it is
\* in at most one split, and in none when y < 2002 or y > current_year.
C5_DateRanges ==
    ds_pc = "split" =>
        \A k \in 1..Len(dataset) :
            LET x == dataset[k]
                y == x.year
                home == {name \in DOMAIN splits : InSplit(x, name)}
            IN  /\ InSplit(x, "train") <=> (2002 <= y /\ y < 2016)
                /\ InSplit(x, "validation") <=> (2016 <= y /\ y < 2018)
                /\ InSplit(x, "test") <=> (2018 <= y /\ y < 2020)
                /\ InSplit(x, "secret_test") <=> (2020 <= y /\ y <= current_year)
                /\ Cardinality(home) <= 1
                /\ (y < 2002 \/ y > current_year) => home = {}

\* a dataset with an example of the current year, one before 2002 and one of a
\* validation start year has been split
C5_Witness ==
    /\ ds_pc = "split"
    /\ InSplit(Example(current_year, 11, 11), "secret_test")
    /\ InSplit(Example(2016, 11, 11), "validation")
    /\ \E k \in 1..Len(dataset) : dataset[k].year = 2001

Occurs(example, ds) == \E k \in 1..Len(ds) : ds[k] = example

AllTooShort(example) ==
    \A k \in 1..Len(feature_col_names) :
        num_tokens_bert(example, feature_col_names[k]) < minFeatureColLength

SomeNotAbove(example) ==
    \E k \in 1..Len(feature_col_names) :
        num_tokens_bert(example, feature_col_names[k]) <= minFeatureColLength

\* C6 as stated: save_dataset removes an example exactly when all of its
\* feature columns are below the minimum token threshold.
C6_Original ==
    ds_pc \in {"saved", "raised"} =>
        \A k \in 1..Len(dataset) :
            ~Occurs(dataset[k], filtered) <=> AllTooShort(dataset[k])

\* C6 amended: save_dataset removes an example before splitting exactly when
\* at least one of its feature columns has a token count that does not exceed
\* the threshold (filter_by_length with how = 'all'); the other examples are
\* kept, in their order, in the dataset handed to create_splits.
C6_RemovesIfAnyShort ==
    ds_pc \in {"saved", "raised"} =>
        /\ \A k \in 1..Len(dataset) :
              ~Occurs(dataset[k], filtered) <=> SomeNotAbove(dataset[k])
        /\ Len(filtered) = Cardinality({k \in 1..Len(dataset) : ~SomeNotAbove(dataset[k])})
        /\ (ds_pc = "saved" /\ split_type = "all_train") => splits["train"] = filtered

C6_Witness ==
    /\ ds_pc = "saved"
    /\ Occurs(Example(2019, 9, 11), dataset)
    /\ ~Occurs(Example(2019, 9, 11), filtered)
    /\ Occurs(Example(2019, 11, 11), filtered)

(***************************************************************************)
(* filter_by_length on its own                                             *)
(***************************************************************************)
MaxTokens == 12

TokenCounts == 0..MaxTokens

InitFilter ==
    /\ fl_example \in {Example(2019, a, b) : a \in TokenCounts, b \in TokenCounts}
    /\ fl_how \in {"any", "all"}
    /\ fl_keep = FALSE
    /\ fl_pc = "call"

FilterByLength ==
    /\ fl_pc = "call"
    /\ fl_keep' = filter_by_length(fl_example, fl_how)
    /\ fl_pc' = "done"
    /\ UNCHANGED <<fl_example, fl_how>>
    /\ UNCHANGED frameFilter

NextFilter == FilterByLength

InitFilterOnly ==
    /\ RestIdleFilter
    /\ InitFilter

SpecFilter == InitFilterOnly /\ [][NextFilter]_vars

\* a feature column is long enough when its count is not below the threshold
LongEnough(example, k) ==
    num_tokens_bert(example, feature_col_names[k]) >= minFeatureColLength

\* C7: a column is too short only when its BERT token count is below
\* minFeatureColLength (a count equal to it is long enough); 'any' keeps the
\* example iff some column is long enough, 'all' iff every column is.
C7_ThresholdInclusive ==
    fl_pc = "done" =>
        /\ fl_how = "any" =>
              (fl_keep <=> \E k \in 1..Len(feature_col_names) : LongEnough(fl_example, k))
        /\ fl_how = "all" =>
              (fl_keep <=> \A k \in 1..Len(feature_col_names) : LongEnough(fl_example, k))

(***************************************************************************)
(* DatasetCreator.save_labels                                              *)
(***************************************************************************)
\* json.dump of a str: the text between double quotes
JsonString(text) == "\"" \o text \o "\""

\* json.dump of an int
JsonNumber(n) == IntToStr(n)

\* json.load of a JSON string
JsonStringValue(json) == SubSeq(json, 2, Len(json) - 1)

\* dict(enumerate(entry)): ids from 0
enumerate_dict(entry) == [x \in 0..(Len(entry) - 1) |-> entry[x + 1]]

\* mutation: the inverse holds the ids shifted by one
invert_dict_shifted(labels_dict) ==
    LET values == {labels_dict[x] : x \in DOMAIN labels_dict}
    IN  [y \in values |-> 1 + Max({x \in DOMAIN labels_dict : labels_dict[x] = y})]

\* {y: x for x, y in labels_dict.items()}: the last id of a label wins
invert_dict(labels_dict) ==
    LET values == {labels_dict[x] : x \in DOMAIN labels_dict}
    IN  [y \in values |-> Max({x \in DOMAIN labels_dict : labels_dict[x] = y})]

\* json.dump(json_labels): an object is the set of its "key": value members;
\* a key that is an int is written as the string of its decimal form
json_labels(entry) ==
    LET labels_dict == enumerate_dict(entry)
        label2id == invert_dict(labels_dict)
    IN  [id2label |-> {<<JsonString(IntToStr(x)), JsonString(labels_dict[x])>> :
                          x \in DOMAIN labels_dict},
         label2id |-> {<<JsonString(y), JsonNumber(label2id[y])>> : y \in DOMAIN label2id}]

label_file_name(n, k) ==
    IF n # 1 THEN "labels_" \o IntToStr(k) \o ".json" ELSE "labels.json"

save_labels(label_list) ==
    [name \in {label_file_name(Len(label_list), k) : k \in 1..Len(label_list)} |->
        json_labels(label_list[CHOOSE k \in 1..Len(label_list) :
                                   label_file_name(Len(label_list), k) = name])]

MaxLabels == 2

MaxLabelSets == 3

LabelNames == {"A", "B", "C"}

\* a label set in the order list(entry) gives it: no label twice
LabelEntries ==
    {entry \in UNION {[1..n -> LabelNames] : n \in 0..MaxLabels} :
        \A a, b \in 1..Len(entry) : entry[a] = entry[b] => a = b}

InitLabels ==
    /\ labels = <<>>
    /\ label_files = <<>>
    /\ lb_pc = "call"

\* the caller collects one more label set
AddLabelSet(entry) ==
    /\ lb_pc = "call"
    /\ Len(labels) < MaxLabelSets
    /\ labels' = Append(labels, entry)
    /\ UNCHANGED <<label_files, lb_pc>>
    /\ UNCHANGED frameLabels

SaveLabels ==
    /\ lb_pc = "call"
    /\ IF Len(labels) = 0
       THEN lb_pc' = "done" /\ UNCHANGED label_files
       ELSE IF Len(labels) > 2
            THEN lb_pc' = "raised" /\ UNCHANGED label_files
            ELSE lb_pc' = "done" /\ label_files' = save_labels(labels)
    /\ UNCHANGED labels
    /\ UNCHANGED frameLabels

NextLabels ==
    \/ \E entry \in LabelEntries : AddLabelSet(entry)
    \/ SaveLabels

InitLabelsOnly ==
    /\ RestIdleLabels
    /\ InitLabels

SpecLabels == InitLabelsOnly /\ [][NextLabels]_vars

LabelSetOf(entry) == {entry[k] : k \in 1..Len(entry)}

FileOf(k) == label_files[label_file_name(Len(labels), k)]

LabelsWritten == lb_pc = "done" /\ Len(labels) > 0

\* the labels of a written file are the input labels, one id each
FileHoldsLabels(k) ==
    /\ {JsonStringValue(m[2]) : m \in FileOf(k).id2label} = LabelSetOf(labels[k])
    /\ {JsonStringValue(m[1]) : m \in FileOf(k).label2id} = LabelSetOf(labels[k])
    /\ Cardinality(FileOf(k).id2label) = Len(labels[k])
    /\ Cardinality(FileOf(k).label2id) = Len(labels[k])
    /\ Cardinality({m[1] : m \in FileOf(k).id2label}) = Len(labels[k])

\* C8 as stated: in every written file label2id[id2label[i]] = i for every id
\* i of id2label and id2label[label2id[l]] = l for every label l, and the
\* labels of the file are the input set with one id per entry.
C8_Original ==
    LabelsWritten =>
        \A k \in 1..Len(labels) :
            /\ \A m \in FileOf(k).id2label : <<m[2], m[1]>> \in FileOf(k).label2id
            /\ \A m \in FileOf(k).label2id : <<m[2], m[1]>> \in FileOf(k).id2label
            /\ FileHoldsLabels(k)

\* C8 amended: the written mappings are mutual inverses once the keys of
\* id2label, which JSON writes as strings, are read as the numbers label2id
\* holds: label2id[id2label[str(i)]] = i and id2label[str(label2id[l])] = l;
\* the labels of the file are the input set with one id per entry.
C8_InverseUpToKeys ==
    LabelsWritten =>
        /\ DOMAIN label_files = {label_file_name(Len(labels), k) : k \in 1..Len(labels)}
        /\ \A k \in 1..Len(labels) :
            /\ \A m \in FileOf(k).id2label :
                  <<m[2], JsonStringValue(m[1])>> \in FileOf(k).label2id
            /\ \A m \in FileOf(k).label2id :
                  <<JsonString(m[2]), m[1]>> \in FileOf(k).id2label
            /\ FileHoldsLabels(k)

C8_Witness ==
    /\ lb_pc = "done"
    /\ labels = << <<"A", "B">>, <<"C">> >>
    /\ DOMAIN label_files = {"labels_1.json", "labels_2.json"}
    /\ <<"\"1\"", "\"B\"">> \in label_files["labels_1.json"].id2label
    /\ <<"\"B\"", "1">> \in label_files["labels_1.json"].label2id

(***************************************************************************)
(* PatternExtractor: the court loop and the per-language accumulator       *)
(***************************************************************************)
\* re.sub('^=+', '', item)
RECURSIVE strip_equals(_)
strip_equals(item) ==
    IF StartsAt(item, 1, "=") THEN strip_equals(SubSeq(item, 2, Len(item))) ELSE item

\* list(dict.fromkeys(paragraphs)): the first occurrence of each paragraph
RECURSIVE no_duplicates(_)
no_duplicates(ps) ==
    IF Len(ps) = 0 THEN <<>>
    ELSE LET front == no_duplicates(SubSeq(ps, 1, Len(ps) - 1))
             last == ps[Len(ps)]
         IN  IF \E k \in 1..Len(front) : front[k] = last THEN front ELSE Append(front, last)

\* the keyword table of one language after check_existance(item)
check_existance(table, item) ==
    LET keyword == strip_equals(item)
    IN  IF keyword \in DOMAIN table
        THEN [table EXCEPT ![keyword] = @ + 1]
        ELSE (keyword :> 1) @@ table

\* the loop of analyze_structure over the items of a decision
RECURSIVE count_items(_, _)
count_items(table, items) ==
    IF Len(items) = 0 THEN table
    ELSE LET item == Head(items)
             next == IF 4 < Len(item) /\ Len(item) < 80
                     THEN check_existance(table, item)
                     ELSE table
         IN  count_items(next, Tail(items))

\* the insertion order of the keys of a keyword table (a Python dict keeps
\* it): a keyword that check_existance stores for the first time comes last
RECURSIVE insert_keys(_, _)
insert_keys(keys, items) ==
    IF Len(items) = 0 THEN keys
    ELSE LET item == Head(items)
             keyword == strip_equals(item)
             next == IF 4 < Len(item) /\ Len(item) < 80
                        /\ ~(\E k \in 1..Len(keys) : keys[k] = keyword)
                     THEN Append(keys, keyword)
                     ELSE keys
         IN  insert_keys(next, Tail(items))

\* count_total_cases: the case count of the language left is stored
count_total_cases(d, lang) ==
    IF currentLanguage # lang /\ currentLanguage # ""
    THEN [d EXCEPT ![currentLanguage].count = counter]
    ELSE d

\* pd.DataFrame.from_dict(table, orient='index'): one row per keyword in
\* insertion order, labelled by the keyword
from_dict(entry) ==
    [k \in 1..Len(entry.keys) |->
        [index |-> entry.keys[k], keyword |-> entry.keys[k],
         totalcount |-> entry.dict[entry.keys[k]], columns |-> <<>>]]

\* drop_rows: rows with totalcount < 2 are dropped, then reset_index(drop=True)
\* labels the remaining rows 0, 1, ...
drop_rows(df) ==
    LET keep(row) == ~(row.totalcount < 2)
        kept == SelectSeq(df, keep)
    IN  [k \in 1..Len(kept) |-> [kept[k] EXCEPT !.index = k - 1]]

\* self.variations: (prefix, suffix) pairs; name is str() of the pair
variations ==
    <<[name |-> "('^', '\\\\s\\\\d\\\\d$')",
       prefix |-> Bol,
       suffix |-> Cat(<<OneOf(SpaceChars), OneOf(DigitChars), OneOf(DigitChars), Eol>>)],
      [name |-> "('^', '.$')",
       prefix |-> Bol,
       suffix |-> Cat(<<AnyChar, Eol>>)],
      [name |-> "('^', '\\\\s$')",
       prefix |-> Bol,
       suffix |-> Cat(<<OneOf(SpaceChars), Eol>>)],
      [name |-> "('^', '\\\\s.$')",
       prefix |-> Bol,
       suffix |-> Cat(<<OneOf(SpaceChars), AnyChar, Eol>>)]>>

\* get_pattern: pattern[0] + re.escape(paragraph) + pattern[1]; the escaped
\* paragraph matches the paragraph literally
get_pattern(paragraph, pattern) == Cat(<<pattern.prefix, Lit(paragraph), pattern.suffix>>)

\* the position of the row labelled index
RowOf(df, index) == CHOOSE k \in 1..Len(df) : df[k].index = index

\* df.drop(index)
drop(df, index) == LET gone(row) == row.index # index IN SelectSeq(df, gone)

\* the loop body of find_matches without df.drop(index)
merge_row_keeping(df, currentIdx, index, column) ==
    LET amount == df[RowOf(df, index)].totalcount
        base == RowOf(df, currentIdx)
    IN  [df EXCEPT ![base].totalcount = @ + amount,
                   ![base].columns[column] = @ + amount]

\* the body of the loop of find_matches for one matched row
merge_row(df, currentIdx, index, column) ==
    LET amount == df[RowOf(df, index)].totalcount
        base == RowOf(df, currentIdx)
        added == [df EXCEPT ![base].totalcount = @ + amount,
                            ![base].columns[column] = @ + amount]
    IN  drop(added, index)

\* find_matches: the variation column is created with 0 in every row, then
\* every matched row is added to the base row and dropped
RECURSIVE merge_rows_into(_, _, _, _)
merge_rows_into(df, currentIdx, indexes, column) ==
    IF Len(indexes) = 0 THEN df
    ELSE merge_rows_into(merge_row(df, currentIdx, Head(indexes), column),
                         currentIdx, Tail(indexes), column)

find_matches(df, currentIdx, indexes, currentPattern) ==
    LET column == currentPattern.name
        with_column == [k \in 1..Len(df) |->
                           IF column \in DOMAIN df[k].columns THEN df[k]
                           ELSE [df[k] EXCEPT !.columns = (column :> 0) @@ @]]
    IN  merge_rows_into(with_column, currentIdx, indexes, column)

\* s.str.match(pattern): the labels of the rows whose keyword matches
matching_indexes(df, pattern) ==
    LET hit(row) == regex_match(pattern, row.keyword)
        rows == SelectSeq(df, hit)
    IN  [k \in 1..Len(rows) |-> rows[k].index]

\* the loop over self.variations for the base row (index, value)
RECURSIVE apply_variations(_, _, _, _)
apply_variations(df, index, value, idx) ==
    IF idx > Len(variations) THEN df
    ELSE LET indexes == matching_indexes(df, get_pattern(value, variations[idx]))
             next == IF Len(indexes) > 0
                     THEN find_matches(df, index, indexes, variations[idx])
                     ELSE df
         IN  apply_variations(next, index, value, idx + 1)

\* apply_regex from the row at position startingIndex (0-based) on: the row
\* is examined as a base and startingIndex is advanced by one, whether or
\* not rows were merged and dropped; the scan ends when no row is left at
\* or after startingIndex
RECURSIVE apply_regex_from(_, _)
apply_regex_from(df, startingIndex) ==
    IF startingIndex >= Len(df) THEN df
    ELSE LET row == df[startingIndex + 1]
         IN  apply_regex_from(apply_variations(df, row.index, row.keyword, 1),
                              startingIndex + 1)

apply_regex(df) == apply_regex_from(df, 0)

\* The markers of assign_section.  Letters with diacritics are written in
\* ASCII (ae, ue for the umlauts, the base letter for French accents) and
\* "^" stands for the degree sign of the Italian date pattern.
\* a marker that starts with a bracket class, e.g. [S,s]achverhalt
Bracket(class, rest) == Cat(<<OneOf(Chars(class)), Lit(rest)>>)

\* a month name: the stem and the rest of the name, which may be left out
Month(stem, rest) == Cat(<<Lit(stem), Opt(Lit(rest))>>)

Digit == OneOf(DigitChars)

Space == OneOf(SpaceChars)

\* line 244: the French date pattern of the footer
footer_date_fr ==
    Cat(<<Star(OneOf(WordChars)), Lit(","), Space,
          Opt(Cat(<<Lit("le"), Opt(Space)>>)),
          Alt(<<Cat(<<Opt(Digit), Digit>>),
                Cat(<<Digit, Opt(Space), Alt(<<Lit("er"), Lit("re"), Lit("e")>>)>>),
                Lit("premier"), Lit("premiere"), Lit("deuxieme"), Lit("troisieme")>>),
          Opt(Space),
          Alt(<<Lit("janv"), Lit("fevr"), Lit("mars"), Lit("avr"), Lit("mai"), Lit("juin"),
                Lit("juill"), Lit("aout"), Lit("sept"), Lit("oct"), Lit("nov"), Lit("dec")>>),
          Rep(AnyChar, 0, 10),
          Opt(Digit), Opt(Digit), Digit, Digit, Opt(Space),
          Alt(<<Cat(<<Rep(AnyChar, 0, 5), Rep(OneOf(UpperChars), 3, 3)>>),
                NotAhead(Rep(AnyChar, 2, 2)),
                Lit(".")>>)>>)

\* line 251: the German date pattern of the footer
footer_date_de ==
    Cat(<<Bol, Star(OneOf(WordChars \cup SpaceChars \cup {"-", "("})), Lit(","),
          Opt(Alt(<<Lit(" den"), Lit(" vom")>>)),
          Space, Opt(Digit), Digit, Opt(Lit(".")), Opt(Space),
          Alt(<<Month("Jan", "uar"), Month("Feb", "ruar"), Month("Maer", "z"),
                Month("Apr", "il"), Lit("Mai"), Month("Jun", "i"), Month("Jul", "i"),
                Month("Aug", "ust"), Month("Sep", "tember"), Month("Okt", "ober"),
                Month("Nov", "ember"), Month("Dez", "ember")>>),
          Space, Rep(Digit, 4, 4),
          Alt(<<Cat(<<Star(Space), Eol>>),
                Cat(<<Star(AnyChar), Alt(<<Lit(":"), Lit("Im Namen")>>)>>)>>)>>)

\* line 259: the Italian date pattern of the footer
footer_date_it ==
    Cat(<<Star(OneOf(WordChars)), Lit(","), Space,
          Opt(Cat(<<Lit("il"), Opt(Space)>>)),
          Alt(<<Cat(<<Opt(Digit), Digit>>), Cat(<<Digit, Opt(Space), Lit("^")>>)>>),
          Opt(Space),
          Alt(<<Month("gen", "naio"), Month("feb", "braio"), Month("mar", "zo"),
                Month("apr", "ile"), Lit("maggio"), Month("giu", "gno"),
                Month("lug", "lio"), Month("ago", "sto"), Month("set", "tembre"),
                Month("ott", "obre"), Month("nov", "embre"), Month("dic", "embre")>>),
          Opt(Space), Opt(Digit), Opt(Digit), Digit, Digit, Opt(Space),
          Rep(OneOf(Chars("abcdefghijklmnopqrstuvwxyz") \cup UpperChars \cup {"/"}), 0, 7),
          Opt(Lit(":")), Star(Space), Eol>>)

all_section_markers ==
    [fr |-> [facts          |-> <<Bracket("F,f", "ait"), Lit("droit")>>,
             considerations |-> <<Bracket("C,c", "onsidere"), Bracket("C,c", "onsiderant"),
                                  Lit("droit")>>,
             rulings        |-> <<Lit("prononce"), Lit("motifs")>>,
             footer         |-> <<footer_date_fr, Lit("Au nom de la Cour")>>],
     de |-> [facts          |-> <<Bracket("S,s", "achverhalt"), Bracket("T,t", "atsachen"),
                                  Bracket("E,e", "insicht in"), Bracket("F,f", "ait"),
                                  Lit("droit")>>,
             considerations |-> <<Bracket("E,e", "rwaegung"), Lit("erwaegt"), Lit("ergeben"),
                                  Bracket("C,c", "onsidere"), Bracket("C,c", "onsiderant"),
                                  Lit("droit")>>,
             rulings        |-> <<Cat(<<Lit("erk"), OneOf(Chars("e,a")), Lit("nnt")>>),
                                  Lit("beschlossen"), Lit("verfuegt"), Lit("beschliesst"),
                                  Lit("entscheidet"), Lit("prononce"), Lit("motifs")>>,
             footer         |-> <<Lit("Rechtsmittelbelehrung"), footer_date_de,
                                  Lit("Im Namen des")>>],
     it |-> [facts          |-> <<Cat(<<OneOf({"F", "f"}), Lit("att"), OneOf({"i", "o"})>>)>>,
             considerations |-> <<Cat(<<OneOf({"C", "c"}), Lit("onsiderando")>>),
                                  Cat(<<OneOf({"D", "d"}), Lit("iritto")>>),
                                  Lit("Visto"),
                                  Cat(<<OneOf({"C", "c"}), Lit("onsiderato")>>)>>,
             rulings        |-> <<Cat(<<OneOf({"P", "p"}), Lit("er questi motivi")>>)>>,
             footer         |-> <<footer_date_it>>]]

\* the sheets of an export: the sections but the full text, with "unknown"
\* in the place of the header
buckets == <<"unknown", "facts", "considerations", "rulings", "footer">>

\* unicodedata.normalize('NFC', .) on the text of a pattern
RECURSIVE nfc_pattern(_), nfc_patterns(_)
nfc_pattern(re) ==
    CASE re.t = "lit" -> Lit(NFC(re.s))
      [] re.t \in {"seq", "alt"} -> [re EXCEPT !.of = nfc_patterns(re.of)]
      [] re.t \in {"rep", "nla"} -> [re EXCEPT !.of = nfc_pattern(re.of)]
      [] OTHER -> re

\* the patterns of a list, each one normalised
nfc_patterns(list) ==
    IF Len(list) = 0 THEN <<>>
    ELSE <<nfc_pattern(Head(list))>> \o nfc_patterns(Tail(list))

\* prepare_section_markers: the markers of the language, those of a section
\* joined by "|" into one pattern and normalised
prepare_section_markers(markers, lang) ==
    [facts          |-> nfc_pattern(Alt(markers[lang]["facts"])),
     considerations |-> nfc_pattern(Alt(markers[lang]["considerations"])),
     rulings        |-> nfc_pattern(Alt(markers[lang]["rulings"])),
     footer         |-> nfc_pattern(Alt(markers[lang]["footer"]))]

\* section_markers of assign_section for each language
section_patterns ==
    [de |-> prepare_section_markers(all_section_markers, "de"),
     fr |-> prepare_section_markers(all_section_markers, "fr"),
     it |-> prepare_section_markers(all_section_markers, "it")]

\* row['coverage'] = row['totalcount'] / count * 100, kept as the fraction
\* <<numerator, denominator>>
with_coverage(row, count) ==
    [index |-> row.index, keyword |-> row.keyword, totalcount |-> row.totalcount,
     columns |-> row.columns, coverage |-> <<row.totalcount * 100, count>>]

\* the sections of every matching marker, whatever the length of the keyword
assigned_sections_of_any_length(markers, element) ==
    {key \in DOMAIN markers : regex_search(markers[key], element)}

\* the sections whose bucket assign_section appends the keyword to
assigned_sections(markers, element) ==
    {key \in DOMAIN markers :
        /\ regex_search(markers[key], element)
        /\ (key = "rulings" \/ Len(element) < 45)}

\* an assignment that appends every keyword to "unknown" as well
buckets_of_with_unknown(markers, element) ==
    {"unknown"} \cup assigned_sections(markers, element)

\* the buckets the keyword is appended to: those sections, or "unknown"
\* when there is none
buckets_of(markers, element) ==
    LET found == assigned_sections(markers, element)
    IN  IF found = {} THEN {"unknown"} ELSE found

\* sort_values(by=['totalcount'], ascending=False): an insertion of the rows
\* one by one, a row going behind the rows that are not smaller
RECURSIVE sort_values(_)
sort_values(rows) ==
    IF Len(rows) = 0 THEN rows
    ELSE LET front == sort_values(SubSeq(rows, 1, Len(rows) - 1))
             last == rows[Len(rows)]
             ahead == {k \in 1..Len(front) : front[k].totalcount >= last.totalcount}
             n == Cardinality(ahead)
         IN  SubSeq(front, 1, n) \o <<last>> \o SubSeq(front, n + 1, Len(front))

\* for index, element in enumerate(df['keyword'].tolist()): the buckets of
\* each row, in the order of the rows
RECURSIVE placements(_, _)
placements(markers, df) ==
    IF Len(df) = 0 THEN <<>>
    ELSE Append(placements(markers, SubSeq(df, 1, Len(df) - 1)),
                buckets_of(markers, df[Len(df)].keyword))

\* assign_section and df_to_csv: the sheets written for one language
assign_section(df, lang, count) ==
    LET markers == section_patterns[lang]
        placed == placements(markers, df)
        in_bucket(key) ==
            LET rows == {k \in 1..Len(df) : key \in placed[k]}
                nth(n) == CHOOSE k \in rows : Cardinality({j \in rows : j < k}) = n - 1
            IN  [n \in 1..Cardinality(rows) |-> with_coverage(df[nth(n)], count)]
    IN  [key \in {buckets[k] : k \in 1..Len(buckets)} |-> sort_values(in_bucket(key))]

export_name(spider, lang) == spider \o "_" \o lang

\* the order in which create_dfs visits the keys of self.dict
language_order == <<"de", "fr", "it">>

\* df['keyword'] raises KeyError on the frame built from a table without
\* any keyword (in apply_regex or, when that is skipped, in assign_section)
raises_in_create_dfs(d, k) ==
    d[language_order[k]].count > 0 /\ DOMAIN d[language_order[k]].dict = {}

\* self.end[key] of create_dfs for one language
end_frame(entry, argv) ==
    IF argv[1] = "1" THEN apply_regex(drop_rows(from_dict(entry)))
    ELSE drop_rows(from_dict(entry))

\* create_dfs: one export per language with a positive case count, in the
\* order of the keys, up to the first language whose table raises; regex
\* records whether apply_regex ran for the export
create_dfs(d, spider, argv) ==
    LET reached == {k \in 1..Len(language_order) :
                       \A j \in 1..k : ~raises_in_create_dfs(d, j)}
        langs == {language_order[k] : k \in {j \in reached : d[language_order[j]].count > 0}}
    IN  [name \in {export_name(spider, lang) : lang \in langs} |->
            LET lang == CHOOSE l \in langs : export_name(spider, l) = name
            IN  [regex |-> (argv[1] = "1"),
                 rows |-> end_frame(d[lang], argv),
                 sheets |-> assign_section(end_frame(d[lang], argv), lang, d[lang].count),
                 count |-> d[lang].count]]

MaxCourts == 2

MaxRows == 2

spider_list == [k \in 1..MaxCourts |-> "court" \o IntToStr(k)]

\* what the per-court processing function returns for a decision
DecisionParagraphs ==
    {<<"Urteil">>,
     <<"=Urteil", "Urteil">>,
     <<"Urteil", "Urteil">>,
     <<"abc", "Beschluss">>,
     <<"abc">>}

RowLanguages == {"de", "fr"}

\* the candidates of a decision: its paragraphs of admitted length, stripped
Candidates(ps) ==
    {strip_equals(ps[k]) : k \in {j \in 1..Len(ps) : 4 < Len(ps[j]) /\ Len(ps[j]) < 80}}

\* the positional command-line values the module is started with
ArgvValues == {"0", "1"}

InitPattern ==
    /\ PatternConstructed
    /\ sys_argv \in {Argv(first, second) : first \in ArgvValues, second \in ArgvValues}

\* mark_as_processed appends the court to the processed-courts marker file
mark_as_processed(processed, spider) == processed \cup {spider}

\* start_spider_loop enters process_one_spider for the next court
StartSpider ==
    /\ pe_pc = "idle"
    /\ pe_court < MaxCourts
    /\ pe_court' = pe_court + 1
    /\ pe_spider' = spider_list[pe_court + 1]
    /\ pe_pc' = "scan"
    /\ court_rows' = 0
    /\ UNCHANGED <<pe_dict, currentLanguage, counter, pe_exports, processed_courts, seen_in,
                   sys_argv, completed_courts>>
    /\ UNCHANGED framePattern

\* process_one_df_row / analyze_structure for one decision
ProcessRow(lang, ps) ==
    /\ pe_pc = "scan"
    /\ court_rows < MaxRows
    /\ LET stored == count_total_cases(pe_dict, lang)
       IN  pe_dict' = [stored EXCEPT ![lang].dict = count_items(@, no_duplicates(ps)),
                                     ![lang].keys = insert_keys(@, no_duplicates(ps))]
    /\ counter' = (IF currentLanguage # lang THEN 0 ELSE counter) + 1
    /\ currentLanguage' = lang
    /\ court_rows' = court_rows + 1
    /\ seen_in' = [seen_in EXCEPT ![lang] =
                      [k \in DOMAIN @ \cup Candidates(ps) |->
                          (IF k \in DOMAIN @ THEN @[k] ELSE 0)
                          + (IF k \in Candidates(ps) THEN 1 ELSE 0)]]
    /\ UNCHANGED <<pe_spider, pe_court, pe_exports, processed_courts, pe_pc, sys_argv,
                   completed_courts>>
    /\ UNCHANGED framePattern

\* the end of process_one_spider: the last case count, then create_dfs
FinishSpider ==
    /\ pe_pc = "scan"
    /\ IF currentLanguage = ""
       THEN /\ pe_pc' = "crashed"
            /\ UNCHANGED <<pe_dict, pe_exports, completed_courts>>
       ELSE LET final == [pe_dict EXCEPT ![currentLanguage].count = counter]
                raised == \E k \in 1..Len(language_order) : raises_in_create_dfs(final, k)
            IN  /\ pe_dict' = final
                /\ pe_exports' = create_dfs(final, pe_spider, sys_argv) @@ pe_exports
                /\ pe_pc' = IF raised THEN "crashed" ELSE "idle"
                /\ completed_courts' = IF raised THEN completed_courts
                                       ELSE completed_courts \cup {pe_spider}
    /\ UNCHANGED <<currentLanguage, counter, pe_spider, pe_court, processed_courts,
                   sys_argv, court_rows, seen_in>>
    /\ UNCHANGED framePattern

\* a loop that writes the marker while the court is still being scanned
FinishSpiderLoop_early ==
    /\ pe_pc = "scan"
    /\ processed_courts' = mark_as_processed(processed_courts, pe_spider)
    /\ UNCHANGED <<pe_dict, currentLanguage, counter, pe_spider, pe_court, pe_exports,
                   pe_pc, sys_argv, court_rows, seen_in, completed_courts>>
    /\ UNCHANGED framePattern

\* the end of start_spider_loop: the loop variable, i.e. the last court of
\* the list, is marked once the loop is over
FinishSpiderLoop ==
    /\ pe_pc = "idle"
    /\ pe_court = MaxCourts
    /\ processed_courts' = mark_as_processed(processed_courts, pe_spider)
    /\ pe_pc' = "finished"
    /\ UNCHANGED <<pe_dict, currentLanguage, counter, pe_spider, pe_court, pe_exports,
                   sys_argv, court_rows, seen_in, completed_courts>>
    /\ UNCHANGED framePattern

NextPattern ==
    \/ StartSpider
    \/ \E lang \in RowLanguages, ps \in DecisionParagraphs : ProcessRow(lang, ps)
    \/ FinishSpider
    \/ FinishSpiderLoop

InitPatternOnly ==
    /\ RestIdlePattern
    /\ InitPattern

SpecPattern == InitPatternOnly /\ [][NextPattern]_vars

\* C9: the totalcount of a keyword is the number of processed decisions of
\* its language in which it is a candidate; one decision adds at most 1,
\* also when its paragraphs differ only by leading '=' characters.
C9_OncePerDecision ==
    \A lang \in PatternLanguages :
        /\ DOMAIN pe_dict[lang].dict = DOMAIN seen_in[lang]
        /\ \A keyword \in DOMAIN pe_dict[lang].dict :
              pe_dict[lang].dict[keyword] = seen_in[lang][keyword]

Pristine ==
    /\ \A lang \in PatternLanguages :
          pe_dict[lang].count = 0 /\ DOMAIN pe_dict[lang].dict = {}
    /\ counter = 0
    /\ currentLanguage = ""

\* C10: when process_one_spider starts for a court, the accumulator (keyword
\* tables, case counts, counter, current language) holds nothing from the
\* courts scanned before.
C10_ResetPerCourt ==
    (pe_pc = "scan" /\ court_rows = 0) => Pristine

\* C13: apply_regex runs for an export exactly when the second positional
\* command-line value is "1", whatever the first positional value is.
C13_RegexBySecondValue ==
    \A name \in DOMAIN pe_exports : pe_exports[name].regex = (sys_argv[2] = "1")

(***************************************************************************)
(* The court loop of start_spider_loop on its own                          *)
(***************************************************************************)
\* decisions for the court loop: one with a keyword, one without any
LoopDecisions == {<<"Urteil">>, <<"abc">>}

\* the language of the decisions of the court loop
LoopLanguages == {"de"}

NextCourtLoop ==
    \/ StartSpider
    \/ \E lang \in LoopLanguages, ps \in LoopDecisions : ProcessRow(lang, ps)
    \/ FinishSpider
    \/ FinishSpiderLoop

InitCourtLoop ==
    /\ RestIdlePattern
    /\ InitPattern

SpecCourtLoop == InitCourtLoop /\ [][NextCourtLoop]_vars

\* C11: a court is in the processed-courts marker file only if
\* process_one_spider for it has run to completion; a court whose processing
\* was interrupted by an error has no marker.
C11_MarkedOnlyCompleted ==
    /\ processed_courts \subseteq completed_courts
    /\ (pe_pc = "crashed" => pe_spider \notin processed_courts)

C11_Witness ==
    /\ pe_pc = "finished"
    /\ pe_spider \in processed_courts
    /\ pe_spider \in completed_courts

\* C12: when start_spider_loop has ended, normally or by an error during
\* court k, every court whose scan completed is in the marker file.
C12_CompletedAreMarked ==
    pe_pc \in {"finished", "crashed"} => completed_courts \subseteq processed_courts

(***************************************************************************)
(* Section assignment of the surviving keywords                            *)
(***************************************************************************)
\* decisions with keywords that match the markers of no section, of one
\* section and of two sections, and with long keywords
AssignDecisions ==
    {<<"droit", "Urteil", "Sachverhalt">>,
     <<"Demnach erkennt das Bundesgericht im Verfahren",
       "Der Sachverhalt ergibt sich aus den Akten wie",
       "droits">>}

\* the language of the decisions whose keywords are assigned
AssignLanguages == {"de"}

NextAssign ==
    \/ StartSpider
    \/ \E lang \in AssignLanguages, ps \in AssignDecisions : ProcessRow(lang, ps)
    \/ FinishSpider
    \/ FinishSpiderLoop

InitAssign ==
    /\ RestIdlePattern
    /\ InitPattern

SpecAssign == InitAssign /\ [][NextAssign]_vars

\* the keywords of a sheet, in the order of its rows
SheetKeywords(export, key) ==
    [k \in 1..Len(export.sheets[key]) |-> export.sheets[key][k].keyword]

\* the buckets whose sheet holds the keyword
BucketsHolding(export, keyword) ==
    {key \in DOMAIN export.sheets :
        \E k \in 1..Len(export.sheets[key]) : export.sheets[key][k].keyword = keyword}

FinalKeywords(export) == {export.rows[k].keyword : k \in 1..Len(export.rows)}

\* C14 as stated: every surviving keyword is in exactly one bucket.
C14_Original ==
    \A name \in DOMAIN pe_exports :
        \A keyword \in FinalKeywords(pe_exports[name]) :
            Cardinality(BucketsHolding(pe_exports[name], keyword)) = 1

\* C14 amended: every surviving keyword is in at least one of the buckets
\* facts, considerations, rulings, footer and unknown, once in each bucket
\* that holds it; it may be in several section buckets, and it is in unknown
\* only when it is in no section bucket; the sheets hold no other keyword.
C14_AtLeastOneBucket ==
    \A name \in DOMAIN pe_exports :
        LET export == pe_exports[name]
        IN  /\ DOMAIN export.sheets = {"unknown", "facts", "considerations", "rulings", "footer"}
            /\ \A keyword \in FinalKeywords(export) :
                  /\ BucketsHolding(export, keyword) # {}
                  /\ "unknown" \in BucketsHolding(export, keyword)
                        => BucketsHolding(export, keyword) = {"unknown"}
            /\ \A key \in DOMAIN export.sheets :
                  /\ \A k \in 1..Len(export.sheets[key]) :
                        export.sheets[key][k].keyword \in FinalKeywords(export)
                  /\ \A k1, k2 \in 1..Len(export.sheets[key]) :
                        SheetKeywords(export, key)[k1] = SheetKeywords(export, key)[k2]
                            => k1 = k2

C14_Witness ==
    \E name \in DOMAIN pe_exports :
        /\ BucketsHolding(pe_exports[name], "droit") = {"facts", "considerations"}
        /\ BucketsHolding(pe_exports[name], "Urteil") = {"unknown"}

(***************************************************************************)
(* slack_alert: the decorator that reports the end of a task               *)
(***************************************************************************)
\* Python values: an int, a str or None
PyInt(n) == [t |-> "int", i |-> n, s |-> ""]

PyStr(str) == [t |-> "str", i |-> 0, s |-> str]

PyNone == [t |-> "none", i |-> 0, s |-> ""]

\* repr(value)
repr(value) ==
    CASE value.t = "int" -> IntToStr(value.i)
      [] value.t = "str" -> "'" \o value.s \o "'"
      [] value.t = "none" -> "None"

\* sep.join(list)
RECURSIVE join(_, _)
join(sep, list) ==
    IF Len(list) = 0 THEN ""
    ELSE IF Len(list) = 1 THEN list[1]
    ELSE list[1] \o sep \o join(sep, Tail(list))

\* build_signature: the reprs of the positional arguments, then key=repr of
\* the keyword arguments, joined by ", "
build_signature(args, kwargs) ==
    LET args_repr == [k \in 1..Len(args) |-> repr(args[k])]
        kwargs_repr == [k \in 1..Len(kwargs) |-> kwargs[k][1] \o "=" \o repr(kwargs[k][2])]
    IN  join(", ", args_repr \o kwargs_repr)

\* what the wrapped function does when called
Returns(value) == [kind |-> "returns", value |-> value, error |-> ""]

Raises(error) == [kind |-> "raises", value |-> PyNone, error |-> error]

\* what the caller of the wrapper sees
Returned(value) == [kind |-> "returned", value |-> value, error |-> ""]

Raised(error) == [kind |-> "raised", value |-> PyNone, error |-> error]

\* traceback.format_exc()
format_exc(error) == "Traceback (most recent call last): " \o error

finished_message(name, signature) == "Your task finished fine: " \o name \o "(" \o signature \o ")"

failed_message(name, signature, traceback_msg) ==
    "Something went wrong with our task: " \o name \o "(" \o signature \o ")\n" \o traceback_msg

\* post_message_to_slack: the message is delivered to the channel
post_message_to_slack(channel, message) == Append(channel, message)

\* a wrapper that reports the failure and raises the error again
slack_alert_reraise(name, args, kwargs, behaviour) ==
    LET signature == build_signature(args, kwargs)
    IN  IF behaviour.kind = "returns"
        THEN [posted |-> <<finished_message(name, signature)>>,
              outcome |-> Returned(behaviour.value)]
        ELSE [posted |-> <<failed_message(name, signature, format_exc(behaviour.error))>>,
              outcome |-> Raised(behaviour.error)]

\* wrapper_decorator of slack_alert: the messages it posts and what its
\* caller sees; the except branch ends without a return statement
slack_alert(name, args, kwargs, behaviour) ==
    LET signature == build_signature(args, kwargs)
    IN  IF behaviour.kind = "returns"
        THEN [posted |-> <<finished_message(name, signature)>>,
              outcome |-> Returned(behaviour.value)]
        ELSE [posted |-> <<failed_message(name, signature, format_exc(behaviour.error))>>,
              outcome |-> Returned(PyNone)]

MaxCalls == 2

\* the tasks wrapped, their arguments and what they do
TaskNames == {"start"}

TaskArgs == {<<>>, <<PyInt(1)>>, <<PyStr("de"), PyInt(2)>>}

TaskKwargs == {<<>>, << <<"overwrite", PyInt(0)>> >>}

TaskBehaviours == {Returns(PyInt(7)), Returns(PyNone), Raises("ValueError")}

InitSlack == IdleSlack

\* one call of a function wrapped by slack_alert
CallWrapped(name, args, kwargs, behaviour) ==
    /\ Len(sa_calls) < MaxCalls
    /\ LET done == slack_alert(name, args, kwargs, behaviour)
           RECURSIVE post_all(_, _)
           post_all(channel, messages) ==
               IF Len(messages) = 0 THEN channel
               ELSE post_all(post_message_to_slack(channel, Head(messages)), Tail(messages))
       IN  /\ slack_messages' = post_all(slack_messages, done.posted)
           /\ sa_outcomes' = Append(sa_outcomes, done.outcome)
    /\ sa_calls' = Append(sa_calls, [name |-> name, args |-> args, kwargs |-> kwargs,
                                     behaviour |-> behaviour])
    /\ UNCHANGED frameSlack

NextSlack ==
    \E name \in TaskNames, args \in TaskArgs, kwargs \in TaskKwargs,
       behaviour \in TaskBehaviours : CallWrapped(name, args, kwargs, behaviour)

InitSlackOnly ==
    /\ InitSlack
    /\ RestIdleSlack

SpecSlack == InitSlackOnly /\ [][NextSlack]_vars

IsFinishedMessage(message) == StartsAt(message, 1, "Your task finished fine: ")

IsFailedMessage(message) == StartsAt(message, 1, "Something went wrong with our task: ")

Dataset(courts, rows) == [courts |-> courts, rows |-> rows]

\* concatenate_datasets (datasets library)
RECURSIVE concatenate_datasets(_)
concatenate_datasets(list) ==
    IF Len(list) = 0 THEN Dataset(<<>>, 0)
    ELSE LET rest == concatenate_datasets(Tail(list))
         IN  Dataset(Head(list).courts \o rest.courts, Head(list).rows + rest.rows)

\* get_dataset_folder followed by create_dir
get_dataset_folder == "datasets/criticality_prediction"

create_dir(parent, name) == parent \o "/" \o name

\* a version loop that never increments
first_version(existing, version) == version

\* the first version number whose folder does not exist
RECURSIVE free_version(_, _)
free_version(existing, version) ==
    IF version \in existing THEN free_version(existing, version + 1) ELSE version

MaxCourtList == 2

MaxPrepared == 2

CourtStrings == {"CH_BGer", "ZH_OG"}

\* the court_list argument: not given (None) or a list of courts
CourtListArguments ==
    {[given |-> FALSE, list |-> <<>>]} \cup
    {[given |-> TRUE, list |-> l] : l \in UNION {[1..n -> CourtStrings] : n \in 0..MaxCourtList}}

\* what prepare_dataset returns for each court
PreparedDatasets == [CourtStrings -> 0..MaxPrepared]

VersionFolders == {{}, {1}}

InitCreateDataset == IdleCreateDataset

\* create_dataset up to the loop over the courts
StartCreateDataset(argument, conc, prep, versions) ==
    /\ cd_phase = "idle"
    /\ cd_phase' = "loop"
    /\ court_list' = IF argument.given THEN argument.list ELSE <<"CH_BGer">>
    /\ concatenate' = conc
    /\ prepared' = prep
    /\ cd_versions' = versions
    /\ cd_next' = 1
    /\ not_created' = <<>>
    /\ created' = <<>>
    /\ datasets_list' = <<>>
    /\ cd_saved' = <<>>
    /\ UNCHANGED frameCreateDataset

\* one pass of the loop: a dataset of at most one row (len(dataset) <= 1)
\* counts as not created
CreateCourt ==
    /\ cd_phase = "loop"
    /\ cd_next <= Len(court_list)
    /\ LET court_string == court_list[cd_next]
           one == Dataset(<<court_string>>, prepared[court_string])
       IN  IF one.rows <= 1
           THEN /\ not_created' = Append(not_created, court_string)
                /\ UNCHANGED <<created, datasets_list, cd_saved>>
           ELSE /\ IF concatenate
                   THEN /\ datasets_list' = Append(datasets_list, one)
                        /\ UNCHANGED cd_saved
                   ELSE /\ cd_saved' = Append(cd_saved,
                               [dataset |-> one,
                                path |-> create_dir(get_dataset_folder, court_string),
                                split_type |-> "configured"])
                        /\ UNCHANGED datasets_list
                /\ created' = Append(created, court_string)
                /\ UNCHANGED not_created
    /\ cd_next' = cd_next + 1
    /\ UNCHANGED <<cd_phase, court_list, concatenate, prepared, cd_versions>>
    /\ UNCHANGED frameCreateDataset

\* after the loop: the concatenation, saved under the next free version;
\* concatenate_datasets raises on an empty list
FinishCreateDataset ==
    /\ cd_phase = "loop"
    /\ cd_next > Len(court_list)
    /\ IF concatenate
       THEN IF Len(datasets_list) = 0
            THEN /\ cd_phase' = "raised"
                 /\ UNCHANGED <<cd_saved, cd_versions>>
            ELSE LET version == free_version(cd_versions, 1)
                 IN  /\ cd_saved' = Append(cd_saved,
                            [dataset |-> concatenate_datasets(datasets_list),
                             path |-> get_dataset_folder \o "/v" \o IntToStr(version),
                             split_type |-> "all_train"])
                     /\ cd_versions' = cd_versions \cup {version}
                     /\ cd_phase' = "done"
       ELSE /\ cd_phase' = "done"
            /\ UNCHANGED <<cd_saved, cd_versions>>
    /\ UNCHANGED <<court_list, concatenate, prepared, cd_next, not_created, created,
                   datasets_list>>
    /\ UNCHANGED frameCreateDataset

NextCreateDataset ==
    \/ \E argument \in CourtListArguments, conc \in BOOLEAN, prep \in PreparedDatasets,
          versions \in VersionFolders : StartCreateDataset(argument, conc, prep, versions)
    \/ CreateCourt
    \/ FinishCreateDataset

InitCreateDatasetOnly ==
    /\ InitCreateDataset
    /\ RestIdleCreateDataset

SpecCreateDataset == InitCreateDatasetOnly /\ [][NextCreateDataset]_vars

Range(seq) == {seq[k] : k \in 1..Len(seq)}

\* create_dataset has iterated over the whole court_list
CourtsIterated == cd_phase # "idle" /\ cd_next > Len(court_list)

SavedOnItsOwn(court_string) ==
    \E k \in 1..Len(cd_saved) :
        /\ cd_saved[k].dataset = Dataset(<<court_string>>, prepared[court_string])
        /\ cd_saved[k].path = create_dir(get_dataset_folder, court_string)

Buffered(court_string) ==
    \E k \in 1..Len(datasets_list) :
        datasets_list[k] = Dataset(<<court_string>>, prepared[court_string])

\* C16: once create_dataset has iterated over court_list, every court of the
\* list is in exactly one of created and not_created, it is in not_created
\* exactly when its prepared dataset has zero rows, and every court with a
\* non-empty dataset is saved on its own (concatenate false) or buffered for
\* the concatenation (concatenate true).
C16_NotCreatedIffEmpty ==
    CourtsIterated =>
        \A court_string \in Range(court_list) :
            /\ (court_string \in Range(created)) # (court_string \in Range(not_created))
            /\ (court_string \in Range(not_created)) <=> (prepared[court_string] = 0)
            /\ prepared[court_string] > 0 =>
                  IF concatenate THEN Buffered(court_string) ELSE SavedOnItsOwn(court_string)

(***************************************************************************)
(* dataframes: get_df and its sub-loaders                                  *)
(***************************************************************************)
\* a dataframe: its column names and its rows, each row with its index label
\* and one cell per column; a missing value (NaN, None) is the cell "nan"
DataFrame(columns, rows) == [columns |-> columns, rows |-> rows]

\* pd.DataFrame()
EmptyDataFrame == DataFrame({}, <<>>)

\* df.empty
empty(df) == Len(df.rows) = 0

NaN == "nan"

\* df[column]: the cells of one column with their index labels
column_of(df, column) ==
    CHOOSE series \in
        {[k \in 1..Len(rows) |-> [index |-> rows[k].index, value |-> rows[k].cells[column]]] :
            rows \in {df.rows}} : TRUE

\* the value a series holds for an index label, or the missing value
value_at(series, index, missing) ==
    IF \E k \in 1..Len(series) : series[k].index = index
    THEN series[CHOOSE k \in 1..Len(series) : series[k].index = index].value
    ELSE missing

with_cell(row, column, value) ==
    [index |-> row.index,
     cells |-> [c \in DOMAIN row.cells \cup {column} |->
                   IF c = column THEN value ELSE row.cells[c]]]

\* df[column] = series: the cells are aligned on the index labels, a row
\* without a label in the series gets the missing value
assign_aligned(df, column, series, missing) ==
    CHOOSE assigned \in
        {DataFrame(left.columns \cup {column},
                   [k \in 1..Len(left.rows) |->
                       with_cell(left.rows[k], column,
                                 value_at(right, left.rows[k].index, missing))]) :
            left \in {df}, right \in {series}} : TRUE

assign(df, column, series) == assign_aligned(df, column, series, NaN)

\* a column of lists: the missing value is written as the empty list
assign_lists(df, column, series) == assign_aligned(df, column, series, <<>>)

\* df[column] = value: the same value in every row
assign_value(df, column, value) ==
    CHOOSE assigned \in
        {DataFrame(left.columns \cup {column},
                   [k \in 1..Len(left.rows) |-> with_cell(left.rows[k], column, value)]) :
            left \in {df}} : TRUE

\* series.apply(function) and series.map(function)
apply(series, function(_)) ==
    CHOOSE applied \in
        {[k \in 1..Len(cells) |->
             [index |-> cells[k].index, value |-> function(cells[k].value)]] :
            cells \in {series}} : TRUE

\* df[column] = df[source].apply(function)
assign_applied(df, column, source, function(_)) ==
    CHOOSE assigned \in
        {assign(left, column, apply(column_of(left, source), function)) : left \in {df}} : TRUE

\* df.drop(columns=[...])
drop_columns(df, columns) ==
    CHOOSE dropped \in
        {DataFrame(left.columns \ columns,
                   [k \in 1..Len(left.rows) |->
                       [index |-> left.rows[k].index,
                        cells |-> [c \in DOMAIN left.rows[k].cells \ columns |->
                                      left.rows[k].cells[c]]]]) :
            left \in {df}} : TRUE

\* df.dropna(subset=..., how='all'): a row goes when every cell of the
\* subset is missing
dropna_all(df, subset) ==
    LET kept(row) == \E c \in subset : row.cells[c] # NaN
    IN  CHOOSE dropped \in
            {DataFrame(left.columns, SelectSeq(left.rows, kept)) : left \in {df}} : TRUE

\* df.dropna(subset=...): a row goes when some cell of the subset is missing
dropna_any(df, subset) ==
    LET kept(row) == \A c \in subset : row.cells[c] # NaN
    IN  CHOOSE dropped \in
            {DataFrame(left.columns, SelectSeq(left.rows, kept)) : left \in {df}} : TRUE

\* df.drop_duplicates(subset=...): the first row of every combination stays
drop_duplicates(df, subset) ==
    LET key(row) == [c \in subset |-> row.cells[c]]
        first(rows, k) == \A h \in 1..(k - 1) : key(rows[h]) # key(rows[k])
        RECURSIVE firsts(_, _)
        firsts(rows, k) ==
            IF k > Len(rows) THEN <<>>
            ELSE (IF first(rows, k) THEN <<rows[k]>> ELSE <<>>) \o firsts(rows, k + 1)
    IN  CHOOSE dropped \in
            {DataFrame(left.columns, firsts(left.rows, 1)) : left \in {df}} : TRUE

\* what a loader hands back: the dataframe, or the error it raised
Loaded(df) == [raised |-> "", df |-> df]

LoaderRaised(error) == [raised |-> error, df |-> EmptyDataFrame]

\* select: the chunks of a query; a query without rows has no chunk at all
select(table) == IF empty(table) THEN <<>> ELSE <<table>>

\* str.replace(old, new) for a one-character old
RECURSIVE replace(_, _, _)
replace(str, old, new) ==
    IF Len(str) = 0 THEN ""
    ELSE (IF SubSeq(str, 1, 1) = old THEN new ELSE SubSeq(str, 1, 1))
         \o replace(SubSeq(str, 2, Len(str)), old, new)

\* get_one_file_number: the first file number of the list, blanks and dots
\* replaced by underscores; "None" when the list is empty or missing
get_one_file_number(column_data) ==
    LET file_number == IF Len(column_data) = 0 THEN "None" ELSE column_data[1]
    IN  replace(replace(file_number, " ", "_"), ".", "_")

\* load_file_number: the column is set only when the query has rows
load_file_number(df, file_number_table) ==
    LET chunks == select(file_number_table)
        file_number_df == IF Len(chunks) = 0 THEN EmptyDataFrame ELSE chunks[1]
    IN  IF empty(file_number_df) THEN Loaded(df)
        ELSE Loaded(assign(df, "file_number",
                           apply(column_of(file_number_df, "file_numbers"), get_one_file_number)))

\* str.split(sep) for a one-character separator
RECURSIVE split(_, _, _)
split(str, sep, field) ==
    IF Len(str) = 0 THEN <<field>>
    ELSE IF SubSeq(str, 1, 1) = sep
         THEN <<field>> \o split(SubSeq(str, 2, Len(str)), sep, "")
         ELSE split(SubSeq(str, 2, Len(str)), sep, field \o SubSeq(str, 1, 1))

\* self.chamber_dict: chamber id -> chamber string {canton}_{court}_{chamber}
chamber_dict == [chamber_id \in {"1", "2"} |->
                    IF chamber_id = "1" THEN "CH_BGer_011" ELSE "ZH_OG_001"]

\* get_string_value: the entry of the dictionary, NaN for a missing id
get_string_value(x) == IF x = NaN THEN NaN ELSE chamber_dict[x]

\* get_court_from_chamber: the first two parts of the chamber string
get_court_from_chamber(chamber) ==
    IF chamber = NaN THEN NaN
    ELSE LET parts == split(chamber, "_", "") IN parts[1] \o "_" \o parts[2]

\* get_canton_from_chamber: the first part of the chamber string
get_canton_from_chamber(chamber) ==
    IF chamber = NaN THEN NaN ELSE split(chamber, "_", "")[1]

\* get_region: static table canton -> region
get_region(canton) ==
    CASE canton = "CH" -> "Federation"
      [] canton = "ZH" -> "Zurich"
      [] OTHER -> NaN

\* get_legal_area: static table of the chambers of every legal area
get_legal_area(chamber_id) ==
    CASE chamber_id = "1" -> "public_law"
      [] OTHER -> NaN

\* get_feature_col_names
get_feature_col_names == <<"facts", "considerations">>

\* astype(int) of a float written as a string
astype_int(value) == split(value, ".", "")[1]

\* filter_column of expand_df: the attribute of the section named like the
\* feature column, nothing when the list has no such section
filter_column(row, feature_col, section_attr) ==
    IF \E k \in 1..Len(row) : row[k].name = feature_col
    THEN row[CHOOSE k \in 1..Len(row) :
                 /\ row[k].name = feature_col
                 /\ \A h \in 1..(k - 1) : row[h].name # feature_col][section_attr]
    ELSE NaN

\* expand_df: the text of one feature column and its two token counts
expand_df(df, feature_col, kind) ==
    LET text(row) == filter_column(row, feature_col, "section_text")
        tokens(n) == IF n = NaN THEN "0" ELSE astype_int(n)
        bert(row) == tokens(filter_column(row, feature_col, "num_tokens_bert"))
        spacy(row) == tokens(filter_column(row, feature_col, "num_tokens_spacy"))
        df1 == assign_applied(df, feature_col, "sections", text)
        df2 == assign_applied(df1, feature_col \o "_num_tokens_bert", "sections", bert)
        df3 == assign_applied(df2, feature_col \o "_num_tokens_spacy", "sections", spacy)
    IN  IF kind = "date-stratified"
        THEN assign_applied(dropna_any(df3, {"year"}), "year", "year", astype_int)
        ELSE df3

RECURSIVE expand_all(_, _, _)
expand_all(df, feature_cols, kind) ==
    IF Len(feature_cols) = 0 THEN df
    ELSE expand_all(expand_df(df, Head(feature_cols), kind), Tail(feature_cols), kind)

\* load_section: takes the first chunk of the query without a default
load_section(df, section_table, court_string, kind) ==
    LET chunks == select(section_table)
    IN  IF Len(chunks) = 0 THEN LoaderRaised("StopIteration")
        ELSE
        LET section_df == chunks[1]
            df1 == assign_lists(df, "sections", column_of(section_df, "sections"))
            df2 == drop_columns(expand_all(df1, get_feature_col_names, kind), {"sections"})
            df3 == assign_applied(df2, "chamber", "chamber_id", get_string_value)
            df4 == assign_applied(df3, "court", "chamber", get_court_from_chamber)
            df5 == assign_applied(df4, "canton", "chamber", get_canton_from_chamber)
            df6 == assign_applied(df5, "region", "canton", get_region)
            df7 == CHOOSE with_legal_area \in
                       {IF court_string = "CH_BGer"
                        THEN assign_applied(left, "legal_area", "chamber_id", get_legal_area)
                        ELSE assign_value(left, "legal_area", "n/a") : left \in {df6}} : TRUE
        IN  Loaded(dropna_all(df7, Range(get_feature_col_names)))

\* load_citation: the citations, or "" in every row when the query is empty
load_citation(df, citation_table) ==
    LET chunks == select(citation_table)
        citations_df == IF Len(chunks) = 0 THEN EmptyDataFrame ELSE chunks[1]
    IN  IF ~empty(citations_df)
        THEN Loaded(assign(df, "citations", column_of(citations_df, "citations")))
        ELSE Loaded(assign_value(df, "citations", ""))

\* load_file: queries only when the dataframe has rows, and then takes the
\* first chunk without a default
load_file(df, file_table) ==
    IF Len(df.rows) > 0
    THEN LET chunks == select(file_table)
         IN  IF Len(chunks) = 0 THEN LoaderRaised("StopIteration")
             ELSE LET file_df == chunks[1]
                      df1 == assign(df, "file_name", column_of(file_df, "file_name"))
                      df2 == assign(df1, "html_url", column_of(file_df, "html_url"))
                  IN  Loaded(assign(df2, "pdf_url", column_of(file_df, "pdf_url")))
    ELSE Loaded(df)

\* load_judgment: the judgments, or "" in every row when the query is empty
load_judgment(df, judgment_table) ==
    LET chunks == select(judgment_table)
        judgments_df == IF Len(chunks) = 0 THEN EmptyDataFrame ELSE chunks[1]
    IN  IF ~empty(judgments_df)
        THEN Loaded(assign(df, "judgments", column_of(judgments_df, "judgments")))
        ELSE Loaded(assign_value(df, "judgments", ""))

\* load_lower_court: the origin columns are set only when the query has
\* rows; for CH_BGer the origin_chamber column is then read
load_lower_court(df, lower_court_table, court_string) ==
    LET chunks == select(lower_court_table)
        lower_court_df == IF Len(chunks) = 0 THEN EmptyDataFrame ELSE chunks[1]
        df1 == IF ~empty(lower_court_df)
               THEN LET a == assign(df, "origin_file_number",
                                    column_of(lower_court_df, "origin_file_number"))
                        b == assign(a, "origin_date", column_of(lower_court_df, "origin_date"))
                        c == assign(b, "origin_chamber", column_of(lower_court_df, "origin_chamber"))
                        d == assign(c, "origin_court", column_of(lower_court_df, "origin_court"))
                    IN  assign(d, "origin_canton", column_of(lower_court_df, "origin_canton"))
               ELSE df
    IN  IF court_string = "CH_BGer"
        THEN IF "origin_chamber" \notin df1.columns THEN LoaderRaised("AttributeError")
             ELSE
             LET a == assign_applied(df1, "origin_chamber", "origin_chamber", get_string_value)
                 b == assign_applied(a, "origin_court", "origin_chamber", get_court_from_chamber)
                 c == assign_applied(b, "origin_canton", "origin_chamber",
                                     get_canton_from_chamber)
             IN  Loaded(assign_applied(c, "origin_region", "origin_canton", get_region))
        ELSE Loaded(assign_value(assign_value(assign_value(assign_value(df1,
                 "origin_chamber", NaN), "origin_court", NaN), "origin_canton", NaN),
                 "origin_region", NaN))

MaxDecisions == 2

\* the columns load_decision gives, after lang is renamed to language
decision_columns == {"decision_id", "file_id", "chamber_id", "year", "language"}

\* the decisions a court can have: with and without chamber and year
DecisionKinds ==
    {[decision_id |-> "d1", file_id |-> "f1", chamber_id |-> "1", year |-> "2019.0",
      language |-> "de"],
     [decision_id |-> "d2", file_id |-> "f2", chamber_id |-> NaN, year |-> NaN,
      language |-> "fr"]}

\* a table with the given cells in the rows labelled 0, 1, ...
Table(columns, cells) ==
    DataFrame(columns, [k \in 1..Len(cells) |-> [index |-> k - 1, cells |-> cells[k]]])

DecisionFrames ==
    {Table(decision_columns, cells) :
        cells \in UNION {[1..n -> DecisionKinds] : n \in 0..MaxDecisions}}

\* what the side-table queries can find: nothing, or one row per decision
SectionTables ==
    {Table({"sections"}, <<>>),
     Table({"sections"},
           <<[sections |-> <<[name |-> "facts", section_text |-> "A B C",
                              num_tokens_bert |-> "3.0", num_tokens_spacy |-> "3.0"]>>],
             [sections |-> <<>>],
             [sections |-> <<[name |-> "considerations", section_text |-> "D",
                              num_tokens_bert |-> "1.0", num_tokens_spacy |-> NaN]>>]>>)}

FileTables ==
    {Table({"file_name", "html_url", "pdf_url"}, <<>>),
     Table({"file_name", "html_url", "pdf_url"},
           <<[file_name |-> "a", html_url |-> "a.html", pdf_url |-> NaN],
             [file_name |-> "b", html_url |-> NaN, pdf_url |-> "b.pdf"]>>)}

FileNumberTables ==
    {Table({"file_numbers"}, <<>>),
     Table({"file_numbers"},
           <<[file_numbers |-> <<"1C 12/2019", "1C.12/2019">>], [file_numbers |-> <<>>]>>)}

JudgmentTables ==
    {Table({"judgments"}, <<>>),
     Table({"judgments"}, <<[judgments |-> "['approval']"], [judgments |-> "['dismissal']"]>>)}

CitationTables ==
    {Table({"citations"}, <<>>),
     Table({"citations"}, <<[citations |-> "[{'type': 'ruling'}]"], [citations |-> "[]"]>>)}

lower_court_columns ==
    {"origin_date", "origin_court", "origin_canton", "origin_chamber", "origin_file_number"}

LowerCourtTables ==
    {Table(lower_court_columns, <<>>),
     Table(lower_court_columns,
           <<[origin_date |-> "2018-05-01", origin_court |-> "7", origin_canton |-> "3",
              origin_chamber |-> "2", origin_file_number |-> "SB180012"],
             [origin_date |-> NaN, origin_court |-> NaN, origin_canton |-> NaN,
              origin_chamber |-> NaN, origin_file_number |-> NaN]>>)}

\* self.split_type of the dataset creator whose loaders are called
loader_split_type == "date-stratified"

InitLoaders == IdleLoaders

Called(loader, df, court_string, table, result) ==
    /\ sl_loader' = loader
    /\ sl_df' = df
    /\ sl_court' = court_string
    /\ sl_table' = table
    /\ sl_result' = result
    /\ UNCHANGED frameLoaders

LoadSection(df, table, court_string) ==
    Called("load_section", df, court_string, table,
           load_section(df, table, court_string, loader_split_type))

LoadFile(df, table, court_string) ==
    Called("load_file", df, court_string, table, load_file(df, table))

LoadFileNumber(df, table, court_string) ==
    Called("load_file_number", df, court_string, table, load_file_number(df, table))

LoadJudgment(df, table, court_string) ==
    Called("load_judgment", df, court_string, table, load_judgment(df, table))

LoadCitation(df, table, court_string) ==
    Called("load_citation", df, court_string, table, load_citation(df, table))

LoadLowerCourt(df, table, court_string) ==
    Called("load_lower_court", df, court_string, table,
           load_lower_court(df, table, court_string))

NextLoaders ==
    \E df \in DecisionFrames, court_string \in CourtStrings :
        \/ \E table \in SectionTables : LoadSection(df, table, court_string)
        \/ \E table \in FileTables : LoadFile(df, table, court_string)
        \/ \E table \in FileNumberTables : LoadFileNumber(df, table, court_string)
        \/ \E table \in JudgmentTables : LoadJudgment(df, table, court_string)
        \/ \E table \in CitationTables : LoadCitation(df, table, court_string)
        \/ \E table \in LowerCourtTables : LoadLowerCourt(df, table, court_string)

InitLoadersOnly ==
    /\ InitLoaders
    /\ RestIdleLoaders

SpecLoaders == InitLoadersOnly /\ [][NextLoaders]_vars

\* the columns every sub-loader derives
DerivedColumns(loader) ==
    CASE loader = "load_section" ->
             UNION {{c, c \o "_num_tokens_bert", c \o "_num_tokens_spacy"} :
                       c \in Range(get_feature_col_names)}
             \cup {"chamber", "court", "canton", "region", "legal_area"}
      [] loader = "load_file" -> {"file_name", "html_url", "pdf_url"}
      [] loader = "load_file_number" -> {"file_number"}
      [] loader = "load_judgment" -> {"judgments"}
      [] loader = "load_citation" -> {"citations"}
      [] loader = "load_lower_court" ->
             {"origin_file_number", "origin_date", "origin_chamber", "origin_court",
              "origin_canton", "origin_region"}

\* the values that stand for "nothing here"
Placeholders == {"", NaN, "n/a", "None", "0"}

\* the result holds the rows of df, cell by cell, and the given columns too,
\* filled with placeholders
SameRowsWithPlaceholders(result, df, columns) ==
    /\ columns \subseteq result.columns
    /\ Len(result.rows) = Len(df.rows)
    /\ \A k \in 1..Len(df.rows) :
          /\ result.rows[k].index = df.rows[k].index
          /\ \A c \in df.columns \ columns : result.rows[k].cells[c] = df.rows[k].cells[c]
          /\ \A c \in columns : result.rows[k].cells[c] \in Placeholders

\* C18: a sub-loader whose side-table query finds no rows does not raise and
\* hands back the decision dataframe with the same rows and with its derived
\* columns present, filled with an empty or placeholder value.
C18_EmptySideTable ==
    (sl_loader # "none" /\ empty(sl_table)) =>
        /\ sl_result.raised = ""
        /\ SameRowsWithPlaceholders(sl_result.df, sl_df, DerivedColumns(sl_loader))

(***************************************************************************)
(* get_df: the joined dataframe of one court, from the cache or the        *)
(* database                                                                *)
(***************************************************************************)
dataset_name == "criticality_prediction"

\* get_chunksize: debug_chunksize or real_chunksize
get_chunksize(debug) == IF debug THEN 100 ELSE 1000000

\* the cache file of a court
cache_file(court_string, debug) ==
    "data/.cache/" \o dataset_name \o "/" \o court_string \o "_"
        \o IntToStr(get_chunksize(debug)) \o ".parquet.gzip"

\* retrieve_from_cache_if_exists: the cached dataframe, else an empty one
retrieve_from_cache_if_exists(cache, file) ==
    IF file \in DOMAIN cache THEN cache[file] ELSE EmptyDataFrame

\* save_df_to_cache: the file now holds the dataframe
save_df_to_cache(cache, df, file) ==
    [f \in DOMAIN cache \cup {file} |-> IF f = file THEN df ELSE cache[f]]

\* df.rename(columns={old: new})
rename(df, old, new) ==
    CHOOSE renamed \in
        {DataFrame((left.columns \ {old}) \cup {new},
                   [k \in 1..Len(left.rows) |->
                       [index |-> left.rows[k].index,
                        cells |-> [c \in (DOMAIN left.rows[k].cells \ {old}) \cup {new} |->
                                      IF c = new THEN left.rows[k].cells[old]
                                      ELSE left.rows[k].cells[c]]]]) :
            left \in {df}} : TRUE

\* load_decision: the first chunk of the decisions of the court, else an
\* empty dataframe
load_decision(decision_table) ==
    LET chunks == select(decision_table)
    IN  IF Len(chunks) = 0 THEN EmptyDataFrame ELSE chunks[1]

\* one sub-loader of get_df when its flag is set and nothing was raised
\* before; every loader called issues its query
load_if(so_far, flag, queries, loader(_)) ==
    IF so_far.raised # "" \/ ~flag THEN so_far
    ELSE CHOOSE after \in {[raised |-> loaded.raised, df |-> loaded.df,
                            queries |-> so_far.queries + queries] :
                               loaded \in {loader(so_far.df)}} : TRUE

\* the part of get_df that queries the database
query_database(tables, court_string, data_to_load) ==
    LET renamed(decisions) ==
            [raised |-> "", df |-> rename(decisions, "lang", "language"), queries |-> 1]
        with_section(df0) ==
            load_if(df0, data_to_load.section, 1,
                LAMBDA df : load_section(df, tables.section, court_string, loader_split_type))
        with_file(df1) ==
            load_if(df1, data_to_load.file, IF Len(df1.df.rows) > 0 THEN 1 ELSE 0,
                LAMBDA df : load_file(df, tables.file))
        with_file_number(df2) ==
            load_if(df2, data_to_load.file_number, 1,
                LAMBDA df : load_file_number(df, tables.file_number))
        with_judgment(df3) ==
            load_if(df3, data_to_load.judgment, 1,
                LAMBDA df : load_judgment(df, tables.judgment))
        with_citation(df4) ==
            load_if(df4, data_to_load.citation, 1,
                LAMBDA df : load_citation(df, tables.citation))
        with_lower_court(df5) ==
            load_if(df5, data_to_load.lower_court, 1,
                LAMBDA df : load_lower_court(df, tables.lower_court, court_string))
        joined(df6) ==
            IF df6.raised # "" THEN [raised |-> df6.raised, df |-> EmptyDataFrame,
                                     queries |-> df6.queries, joined |-> FALSE]
            ELSE IF ~(Range(get_feature_col_names) \subseteq df6.df.columns)
            THEN [raised |-> "KeyError", df |-> EmptyDataFrame, queries |-> df6.queries,
                  joined |-> FALSE]
            ELSE [raised |-> "", queries |-> df6.queries, joined |-> TRUE,
                  df |-> drop_duplicates(df6.df, Range(get_feature_col_names))]
    IN  CHOOSE result \in
            {IF empty(decisions)
             THEN [raised |-> "", df |-> decisions, queries |-> 1, joined |-> FALSE]
             ELSE CHOOSE loaded \in
                      {joined(df6) :
                          df6 \in {with_lower_court(df5) :
                          df5 \in {with_citation(df4) :
                          df4 \in {with_judgment(df3) :
                          df3 \in {with_file_number(df2) :
                          df2 \in {with_file(df1) :
                          df1 \in {with_section(df0) :
                          df0 \in {renamed(decisions)}}}}}}}} : TRUE :
                decisions \in {load_decision(tables.decision)}} : TRUE

\* the branch of get_df that loads from the database and, with use_cache,
\* stores what it loaded
load_and_store(db, cache, file, reads, data_to_load, court_string, use_cache) ==
    CHOOSE result \in
        {[raised |-> queried.raised, df |-> queried.df, queries |-> queried.queries,
          reads |-> reads, writes |-> IF queried.joined /\ use_cache THEN 1 ELSE 0,
          cache |-> IF queried.joined /\ use_cache
                    THEN save_df_to_cache(cache, queried.df, file) ELSE cache] :
            queried \in {query_database(db[court_string], court_string, data_to_load)}} :
        TRUE

\* get_df that loads from the database even when the cache has the court
get_df_reloading(db, cache, debug, data_to_load, court_string, use_cache, overwrite_cache) ==
    LET file == cache_file(court_string, debug)
        reads == IF use_cache /\ ~overwrite_cache THEN 1 ELSE 0
    IN  load_and_store(db, cache, file, reads, data_to_load, court_string, use_cache)

\* get_df: what it returns or raises, the database queries it issued, its
\* reads and writes of the cache, and the cache afterwards
get_df(db, cache, debug, data_to_load, court_string, use_cache, overwrite_cache) ==
    LET file == cache_file(court_string, debug)
        cached == IF use_cache /\ ~overwrite_cache
                  THEN retrieve_from_cache_if_exists(cache, file)
                  ELSE EmptyDataFrame
        reads == IF use_cache /\ ~overwrite_cache THEN 1 ELSE 0
    IN  IF use_cache /\ ~overwrite_cache /\ ~empty(cached)
        THEN [raised |-> "", df |-> cached, queries |-> 0, reads |-> reads, writes |-> 0,
              cache |-> cache]
        ELSE load_and_store(db, cache, file, reads, data_to_load, court_string, use_cache)

MaxGetDf == 2

\* the tables of a court without decisions
EmptyCourt ==
    [decision |-> Table((decision_columns \ {"language"}) \cup {"lang"}, <<>>),
     section |-> CHOOSE t \in SectionTables : empty(t),
     file |-> CHOOSE t \in FileTables : empty(t),
     file_number |-> CHOOSE t \in FileNumberTables : empty(t),
     judgment |-> CHOOSE t \in JudgmentTables : empty(t),
     citation |-> CHOOSE t \in CitationTables : empty(t),
     lower_court |-> CHOOSE t \in LowerCourtTables : empty(t)]

\* the tables of a court with two decisions and a row in every side table
FilledCourt ==
    [decision |-> Table((decision_columns \ {"language"}) \cup {"lang"},
                        <<[decision_id |-> "d1", file_id |-> "f1", chamber_id |-> "1",
                           year |-> "2019.0", lang |-> "de"],
                          [decision_id |-> "d2", file_id |-> "f2", chamber_id |-> "2",
                           year |-> "2020.0", lang |-> "fr"]>>),
     section |-> CHOOSE t \in SectionTables : ~empty(t),
     file |-> CHOOSE t \in FileTables : ~empty(t),
     file_number |-> CHOOSE t \in FileNumberTables : ~empty(t),
     judgment |-> CHOOSE t \in JudgmentTables : ~empty(t),
     citation |-> CHOOSE t \in CitationTables : ~empty(t),
     lower_court |-> CHOOSE t \in LowerCourtTables : ~empty(t)]

\* the databases: CH_BGer has decisions, ZH_OG has some or none
Databases ==
    {[court_string \in CourtStrings |->
         IF court_string = "CH_BGer" THEN FilledCourt ELSE tables] :
        tables \in {EmptyCourt, FilledCourt}}

\* a dataframe cached by an earlier run
CachedEarlier ==
    Table(decision_columns \cup {"facts"},
          <<[decision_id |-> "d0", file_id |-> "f0", chamber_id |-> "1", year |-> "2018",
             language |-> "it", facts |-> "E"]>>)

\* the cache when the program starts: nothing, or CH_BGer cached earlier
CachesAtStart(debug) == {<<>>, [f \in {cache_file("CH_BGer", debug)} |-> CachedEarlier]}

\* the data_to_load arguments: everything, or the sections only
DataToLoad ==
    {[section |-> TRUE, file |-> all, file_number |-> all, judgment |-> all,
      citation |-> all, lower_court |-> all] : all \in BOOLEAN}

InitGetDf ==
    /\ gd_debug \in BOOLEAN
    /\ gd_db \in Databases
    /\ gd_cache \in CachesAtStart(gd_debug)
    /\ gd_calls = <<>>

\* one call of get_df
GetDf(data_to_load, court_string, use_cache, overwrite_cache) ==
    /\ Len(gd_calls) < MaxGetDf
    /\ \E done \in {get_df(gd_db, gd_cache, gd_debug, data_to_load, court_string,
                           use_cache, overwrite_cache)} :
           /\ gd_cache' = done.cache
           /\ gd_calls' = Append(gd_calls,
                  [court_string |-> court_string, use_cache |-> use_cache,
                   overwrite_cache |-> overwrite_cache, data_to_load |-> data_to_load,
                   cache_before |-> gd_cache, cache_after |-> done.cache,
                   raised |-> done.raised, df |-> done.df, queries |-> done.queries,
                   reads |-> done.reads, writes |-> done.writes])
    /\ UNCHANGED <<gd_debug, gd_db>>
    /\ UNCHANGED frameGetDf

NextGetDf ==
    \E data_to_load \in DataToLoad, court_string \in CourtStrings,
       use_cache \in BOOLEAN, overwrite_cache \in BOOLEAN :
        GetDf(data_to_load, court_string, use_cache, overwrite_cache)

InitGetDfOnly ==
    /\ InitGetDf
    /\ RestIdleGetDf

SpecGetDf == InitGetDfOnly /\ [][NextGetDf]_vars

\* what the cache held for the court of a call when the call began
CachedBefore(call) ==
    retrieve_from_cache_if_exists(call.cache_before, cache_file(call.court_string, gd_debug))

\* the call found a non-empty cache entry it was allowed to use
CacheHit(call) == call.use_cache /\ ~call.overwrite_cache /\ ~empty(CachedBefore(call))

\* the call loaded a non-empty dataframe from the database and stored it
LoadedAndStored(call) ==
    call.raised = "" /\ call.queries > 0 /\ call.writes = 1 /\ ~empty(call.df)

\* C17: with use_cache and without overwrite_cache a non-empty cache entry
\* of the court is returned as it is, with no database query and no write
\* of the cache; a call following one that loaded and stored a non-empty
\* dataframe for the same court returns that dataframe without a query;
\* without use_cache the cache is neither read nor written.
C17_CacheReturnedAsIs ==
    \A k \in 1..Len(gd_calls) :
        LET call == gd_calls[k]
        IN  /\ CacheHit(call) =>
                  /\ call.raised = ""
                  /\ call.df = CachedBefore(call)
                  /\ call.queries = 0
                  /\ call.writes = 0
                  /\ call.cache_after = call.cache_before
            /\ (/\ k > 1
                /\ LoadedAndStored(gd_calls[k - 1])
                /\ gd_calls[k - 1].court_string = call.court_string
                /\ call.use_cache
                /\ ~call.overwrite_cache) =>
                  /\ call.df = gd_calls[k - 1].df
                  /\ call.queries = 0
            /\ ~call.use_cache =>
                  /\ call.reads = 0
                  /\ call.writes = 0
                  /\ call.cache_after = call.cache_before

C17_Witness ==
    /\ Len(gd_calls) = 2
    /\ gd_cache # <<>>
    /\ gd_calls[1].cache_before = <<>>
    /\ LoadedAndStored(gd_calls[1])
    /\ gd_calls[2].court_string = gd_calls[1].court_string
    /\ CacheHit(gd_calls[2])
    /\ gd_calls[2].queries = 0
    /\ gd_calls[2].df = gd_calls[1].df
    /\ gd_calls[2].data_to_load # gd_calls[1].data_to_load

(***************************************************************************)
(* get_citation: the citations of one decision                             *)
(***************************************************************************)
PyBool(b) == [t |-> "bool", i |-> IF b THEN 1 ELSE 0, s |-> ""]

PyList(items) == [t |-> "list", items |-> items]

\* a dict: its key-value pairs in the order written
PyDict(items) == [t |-> "dict", items |-> items]

\* a name that is no literal, as nan
PyName(name) == [t |-> "name", i |-> 0, s |-> name]

RECURSIVE SkipBlanks(_, _)
SkipBlanks(str, i) == IF CharAt(str, i) = " " THEN SkipBlanks(str, i + 1) ELSE i

\* the end of the run of characters of a class that starts at i
RECURSIVE RunEnd(_, _, _)
RunEnd(str, i, class) == IF CharAt(str, i) \in class THEN RunEnd(str, i + 1, class) ELSE i

Parsed(value, next) == [error |-> FALSE, value |-> value, next |-> next]

NotParsed == [error |-> TRUE, value |-> PyNone, next |-> 0]

\* the parser of literal_eval for the literals of the payloads: lists, dicts
\* with any keys, strings in single quotes without escapes, natural numbers,
\* None, True, False and names
RECURSIVE parse_value(_, _), parse_items(_, _, _), parse_pairs(_, _, _)
parse_value(str, start) ==
    LET i == SkipBlanks(str, start)
        c == CharAt(str, i)
    IN  CASE c = "[" -> parse_items(str, i + 1, <<>>)
          [] c = "{" -> parse_pairs(str, i + 1, <<>>)
          [] c = "'" ->
                 IF \E j \in (i + 1)..Len(str) : CharAt(str, j) = "'"
                 THEN LET j == CHOOSE j \in (i + 1)..Len(str) :
                                   /\ CharAt(str, j) = "'"
                                   /\ \A h \in (i + 1)..(j - 1) : CharAt(str, h) # "'"
                      IN  Parsed(PyStr(SubSeq(str, i + 1, j - 1)), j + 1)
                 ELSE NotParsed
          [] c \in DigitChars ->
                 LET j == RunEnd(str, i, DigitChars)
                 IN  IF CharAt(str, j) \in WordChars THEN NotParsed
                     ELSE Parsed(PyInt(StrToNat(SubSeq(str, i, j - 1))), j)
          [] c \in WordChars \ DigitChars ->
                 LET j == RunEnd(str, i, WordChars)
                     word == SubSeq(str, i, j - 1)
                 IN  Parsed(CASE word = "None" -> PyNone
                              [] word = "True" -> PyBool(TRUE)
                              [] word = "False" -> PyBool(FALSE)
                              [] OTHER -> PyName(word), j)
          [] OTHER -> NotParsed

parse_items(str, start, items) ==
    LET i == SkipBlanks(str, start)
    IN  IF CharAt(str, i) = "]" THEN Parsed(PyList(items), i + 1)
        ELSE LET item == parse_value(str, i)
                 j == SkipBlanks(str, item.next)
             IN  IF item.error THEN NotParsed
                 ELSE IF CharAt(str, j) = "," THEN parse_items(str, j + 1, Append(items, item.value))
                 ELSE IF CharAt(str, j) = "]" THEN Parsed(PyList(Append(items, item.value)), j + 1)
                 ELSE NotParsed

parse_pairs(str, start, items) ==
    LET i == SkipBlanks(str, start)
    IN  IF CharAt(str, i) = "}" THEN Parsed(PyDict(items), i + 1)
        ELSE LET key == parse_value(str, i)
                 colon == SkipBlanks(str, key.next)
                 value == parse_value(str, colon + 1)
                 j == SkipBlanks(str, value.next)
             IN  IF key.error \/ CharAt(str, colon) # ":" THEN NotParsed
                 ELSE IF value.error THEN NotParsed
                 ELSE IF CharAt(str, j) = ","
                      THEN parse_pairs(str, j + 1, Append(items, <<key.value, value.value>>))
                 ELSE IF CharAt(str, j) = "}"
                      THEN Parsed(PyDict(Append(items, <<key.value, value.value>>)), j + 1)
                 ELSE NotParsed

\* a name somewhere in the parsed value
RECURSIVE has_name(_)
has_name(value) ==
    CASE value.t = "name" -> TRUE
      [] value.t = "list" -> \E k \in 1..Len(value.items) : has_name(value.items[k])
      [] value.t = "dict" ->
             \E k \in 1..Len(value.items) :
                 has_name(value.items[k][1]) \/ has_name(value.items[k][2])
      [] OTHER -> FALSE

\* ast.literal_eval: SyntaxError for what does not parse, ValueError for a
\* parsed expression that is no literal
literal_eval(node_or_string) ==
    LET parsed == parse_value(node_or_string, 1)
    IN  IF parsed.error \/ SkipBlanks(node_or_string, parsed.next) <= Len(node_or_string)
        THEN [raised |-> "SyntaxError", value |-> PyNone]
        ELSE IF has_name(parsed.value)
        THEN [raised |-> "ValueError", value |-> PyNone]
        ELSE [raised |-> "", value |-> parsed.value]

\* iter(value): the elements a for loop goes through
iterate(value) ==
    CASE value.t = "list" -> [raised |-> "", items |-> value.items]
      [] value.t = "dict" ->
             [raised |-> "", items |-> [k \in 1..Len(value.items) |-> value.items[k][1]]]
      [] value.t = "str" ->
             [raised |-> "", items |-> [k \in 1..Len(value.s) |-> PyStr(CharAt(value.s, k))]]
      [] OTHER -> [raised |-> "TypeError", items |-> <<>>]

\* value[key] for a string key: the last pair of a dict with that key
subscript(value, key) ==
    IF value.t # "dict" THEN [raised |-> "TypeError", value |-> PyNone]
    ELSE LET hits == {k \in 1..Len(value.items) : value.items[k][1] = PyStr(key)}
         IN  IF hits = {} THEN [raised |-> "KeyError", value |-> PyNone]
             ELSE [raised |-> "", value |-> value.items[Max(hits)][2]]

\* RulingCitation accepts the text: "[BGE] {year} {volume} {page}"
is_ruling_citation(text) ==
    LET fields == SplitFields(text, "")
        f == IF Len(fields) > 0 /\ fields[1] = "BGE" THEN Tail(fields) ELSE fields
        number(field) == Len(field) > 0 /\ \A k \in 1..Len(field) : IsDigit(CharAt(field, k))
    IN  Len(f) = 3 /\ number(f[1]) /\ number(f[3])

\* get_law_citation of the dataset variant: the law citation, or None
get_law_citation(citations_text) ==
    IF StartsAt(citations_text, 1, "Art. ") THEN PyStr(citations_text) ELSE PyNone

\* the body of the loop over the citations for one citation: the error that
\* leaves it, or the citation appended and the line logged
one_citation(citation, type, bges) ==
    LET text == subscript(citation, "text")
        name == subscript(citation, "name")
        nothing == [raised |-> "", append |-> <<>>, logged |-> <<>>]
    IN  IF text.raised # "" THEN [raised |-> text.raised, append |-> <<>>, logged |-> <<>>]
        ELSE IF name.raised # "" THEN [raised |-> name.raised, append |-> <<>>, logged |-> <<>>]
        ELSE IF text.value.t # "str"
        THEN [raised |-> "AttributeError", append |-> <<>>, logged |-> <<>>]
        ELSE LET cit == join(" ", SplitFields(text.value.s, ""))
             IN  IF name.value = PyStr("ruling") /\ type = "ruling"
                 THEN IF is_ruling_citation(cit)
                      THEN [raised |-> "", append |-> <<get_file_number(cit, bges)>>,
                            logged |-> <<>>]
                      ELSE [raised |-> "", append |-> <<>>,
                            logged |-> <<"Citation has invalid syntax">>]
                 ELSE IF name.value = PyStr("law") /\ type = "law"
                 THEN LET tmp == get_law_citation(cit)
                      IN  IF tmp # PyNone
                          THEN [raised |-> "", append |-> <<tmp.s>>, logged |-> <<>>]
                          ELSE nothing
                 ELSE nothing

\* the loop over the citations; an error other than ValueError leaves it
RECURSIVE citations_loop(_, _, _, _, _)
citations_loop(citations, type, bges, cits, logged) ==
    IF Len(citations) = 0 THEN [raised |-> "", cits |-> cits, logged |-> logged]
    ELSE LET one == one_citation(Head(citations), type, bges)
         IN  IF one.raised # "" THEN [raised |-> one.raised, cits |-> cits, logged |-> logged]
             ELSE citations_loop(Tail(citations), type, bges, cits \o one.append,
                                 logged \o one.logged)

\* get_citation: only ValueError is caught, around the entry and around the
\* payload; cits of <<>> stands for returning nothing
get_citation(citations_as_string, type, bges) ==
    LET citations == literal_eval(citations_as_string)
    IN  IF citations.raised = "ValueError"
        THEN [raised |-> "", cits |-> <<>>,
              logged |-> <<"Citations could not be extracted to dict">>]
        ELSE IF citations.raised # ""
        THEN [raised |-> citations.raised, cits |-> <<>>, logged |-> <<>>]
        ELSE LET elements == iterate(citations.value)
             IN  IF elements.raised # ""
                 THEN [raised |-> elements.raised, cits |-> <<>>, logged |-> <<>>]
                 ELSE citations_loop(elements.items, type, bges, <<>>, <<>>)

MaxEntries == 2

MaxCitationCalls == 2

\* the entries of a citations payload: a ruling, a law, an entry without
\* 'text', a ruling whose text is no citation, and an entry that is no dict
EntryLiterals ==
    {"{'name': 'ruling', 'text': 'BGE 120  II 8'}",
     "{'name': 'law', 'text': 'Art. 1 OR'}",
     "{'name': 'ruling'}",
     "{'name': 'ruling', 'text': 'siehe oben'}",
     "5"}

\* the payloads: lists of entries, and payloads that are no list
CitationPayloads ==
    {"[" \o join(", ", entries) \o "]" :
        entries \in UNION {[1..n -> EntryLiterals] : n \in 0..MaxEntries}}
    \cup {"", "nan", "[{'name': 'ruling'", "7"}

CitationTypes == {"ruling", "law"}

\* the rulings load_rulings finds for the decisions cited
CitationUniverses == {{}, {"BGE 120 II 5"}}

InitCitation == IdleCitation

\* one call of get_citation
GetCitation(citations_as_string, type) ==
    /\ fn_pc = "loaded"
    /\ gc_counter < MaxCitationCalls
    /\ gc_counter' = gc_counter + 1
    /\ gc_payload' = citations_as_string
    /\ gc_type' = type
    /\ gc_outcome' = get_citation(citations_as_string, type, available_bges)
    /\ UNCHANGED frameCitation

NextCitation ==
    \/ \E bges \in CitationUniverses : LoadRulings(bges)
    \/ \E citations_as_string \in CitationPayloads, type \in CitationTypes :
          GetCitation(citations_as_string, type)

InitCitationOnly ==
    /\ InitCitation
    /\ RestIdleCitation

SpecCitation == InitCitationOnly /\ [][NextCitation]_vars

\* the payload parses into a list
IsListPayload(payload) ==
    LET citations == literal_eval(payload)
    IN  citations.raised = "" /\ citations.value.t = "list"

\* the citations of the entries that are well formed and of the requested
\* type, in the order of the payload; a malformed entry gives none
RECURSIVE WellFormedResolved(_, _, _)
WellFormedResolved(entries, type, bges) ==
    IF Len(entries) = 0 THEN <<>>
    ELSE LET one == one_citation(Head(entries), type, bges)
         IN  (IF one.raised # "" THEN <<>> ELSE one.append)
             \o WellFormedResolved(Tail(entries), type, bges)

\* C19: get_citation never raises; a payload that is no list of citation
\* dictionaries gives no citations, and a malformed entry is skipped while
\* the other entries of the requested type are resolved and returned in
\* their order.
C19_NeverRaises ==
    gc_counter > 0 =>
        /\ gc_outcome.raised = ""
        /\ gc_outcome.cits =
              IF IsListPayload(gc_payload)
              THEN WellFormedResolved(literal_eval(gc_payload).value.items, gc_type,
                                      available_bges)
              ELSE <<>>

(***************************************************************************)
(* create_sub_datasets: the slices of the splits                           *)
(***************************************************************************)
\* self.metadata
metadata ==
    <<"year", "legal_area", "chamber", "court", "canton", "region",
      "origin_chamber", "origin_court", "origin_canton", "origin_region">>

boundaries == <<0, 512, 1024, 2048, 4096, 8192>>

\* {n:04d}
pad4(n) == LET digits == IntToStr(n)
           IN  IF Len(digits) >= 4 THEN digits
               ELSE SubSeq("0000", 1, 4 - Len(digits)) \o digits

\* the name of the i-th input length slice and its limits
between_lower(i) == boundaries[i] + 1

between_higher(i) == boundaries[i + 1]

between_name(i) == "between(" \o pad4(between_lower(i)) \o "," \o pad4(between_higher(i)) \o ")"

\* legal_areas.keys(): the names of the legal areas
legal_areas == {"public_law", "civil_law", "penal_law", "social_law"}

\* split_df[condition] for every split
slice_of(sp, keep(_)) == [split_name \in DOMAIN sp |-> SelectSeq(sp[split_name], keep)]

input_length_slices(sp) ==
    [name \in {between_name(i) : i \in 1..(Len(boundaries) - 1)} |->
        LET i == CHOOSE i \in 1..(Len(boundaries) - 1) : between_name(i) = name
            keep(row) == between_lower(i) <= row.num_tokens_bert
                            /\ row.num_tokens_bert <= between_higher(i)
        IN  slice_of(sp, keep)]

\* the year slices for the years of range(first, last)
year_slices_in(sp, first, last) ==
    [name \in {IntToStr(year) : year \in first..(last - 1)} |->
        LET year == CHOOSE year \in first..(last - 1) : IntToStr(year) = name
            keep(row) == row.year = year
        IN  slice_of(sp, keep)]

\* for year in range(self.start_years[Split.TEST.value], self.current_year)
year_slices(sp, type, this_year) ==
    IF type = "date-stratified" THEN year_slices_in(sp, start_years.test, this_year)
    ELSE <<>>

legal_area_slices(sp) ==
    [legal_area \in legal_areas |->
        LET keep(row) == Contains(row.legal_area, legal_area) IN slice_of(sp, keep)]

\* one slice per distinct value of the column in the "all" split that is
\* not missing; a split gives its rows that have the value in the column
origin_slices(sp, column) ==
    LET values == {sp["all"][k][column] : k \in 1..Len(sp["all"])} \ {NaN}
    IN  [value \in values |->
            LET keep(row) == row[column] # NaN /\ Contains(row[column], value)
            IN  slice_of(sp, keep)]

\* create_sub_datasets: the dictionary of slices, or the KeyError of a
\* splits dictionary without the "all" split
create_sub_datasets(sp, type, this_year) ==
    IF "all" \notin DOMAIN sp THEN [raised |-> "KeyError", dict |-> <<>>]
    ELSE [raised |-> "",
          dict |-> [category \in Range(metadata) \cup {"input_length"} |->
                      CASE category = "input_length" -> input_length_slices(sp)
                        [] category = "year" -> year_slices(sp, type, this_year)
                        [] category = "legal_area" -> legal_area_slices(sp)
                        [] category \in {"origin_region", "origin_canton", "origin_court",
                                         "origin_chamber"} -> origin_slices(sp, category)
                        [] OTHER -> <<>>]]

MaxSliced == 2

\* a decision with the columns create_sub_datasets reads
SlicedExample(year, origin) ==
    [year |-> year, facts_num_tokens_bert |-> 300, considerations_num_tokens_bert |-> 300,
     num_tokens_bert |-> 600, legal_area |-> "public_law",
     origin_region |-> IF origin = NaN THEN NaN ELSE "Zurich",
     origin_canton |-> origin,
     origin_court |-> IF origin = NaN THEN NaN ELSE origin \o "_OG",
     origin_chamber |-> IF origin = NaN THEN NaN ELSE origin \o "_OG_001"]

SlicedYears == {2017, 2018, 2020, 2021, 2023}

SlicedExamples == {SlicedExample(year, origin) : year \in SlicedYears, origin \in {NaN, "ZH"}}

\* save_dataset with sub_datasets: the length filter, the splits, then the
\* slices of the splits
SaveDatasetWithSubDatasets ==
    /\ ds_pc = "build"
    /\ sd_pc = "idle"
    /\ LET keep(example) == filter_by_length(example, "all")
           kept == SelectSeq(dataset, keep)
           result == create_splits(kept, split_type, save_reports, current_year)
       IN  /\ filtered' = kept
           /\ IF result = SplitError
              THEN /\ ds_pc' = "raised"
                   /\ UNCHANGED <<splits, sub_datasets_dict, sd_pc>>
              ELSE LET slices == create_sub_datasets(result, split_type, current_year)
                   IN  /\ splits' = result
                       /\ IF slices.raised # ""
                          THEN /\ ds_pc' = "raised"
                               /\ sd_pc' = "raised"
                               /\ UNCHANGED sub_datasets_dict
                          ELSE /\ ds_pc' = "saved"
                               /\ sd_pc' = "done"
                               /\ sub_datasets_dict' = slices.dict
    /\ UNCHANGED <<current_year, dataset, split_type, save_reports>>
    /\ UNCHANGED frameSaveWithSubDatasets

NextSubDatasets ==
    \/ \E example \in SlicedExamples : AddExample(example, MaxSliced)
    \/ SaveDatasetWithSubDatasets

InitSubDatasets ==
    /\ InitDataset
    /\ RestIdleDataset

SpecSubDatasets == InitSubDatasets /\ [][NextSubDatasets]_vars

\* C20: for a date-stratified dataset create_sub_datasets builds one year
\* slice for every year from the test start year (2018) through the current
\* year, and no other; for every other split type it builds no year slice.
C20_YearSlices ==
    sd_pc = "done" =>
        DOMAIN sub_datasets_dict["year"] =
            IF split_type = "date-stratified"
            THEN {IntToStr(year) : year \in start_years.test..current_year}
            ELSE {}

(***************************************************************************)
(* CH_BGer.get_paragraphs (section_splitting_functions.py, lines 43-71)    *)
(***************************************************************************)
MaxElements == 3

\* None and a str, for heading and paragraph
NoText == [none |-> TRUE, text |-> ""]

Text(str) == [none |-> FALSE, text |-> str]

\* str.strip() for blanks
RECURSIVE lstrip(_)
lstrip(str) ==
    IF Len(str) > 0 /\ SubSeq(str, 1, 1) = " " THEN lstrip(SubSeq(str, 2, Len(str))) ELSE str

RECURSIVE rstrip(_)
rstrip(str) ==
    IF Len(str) > 0 /\ SubSeq(str, Len(str), Len(str)) = " "
    THEN rstrip(SubSeq(str, 1, Len(str) - 1)) ELSE str

strip(str) == rstrip(lstrip(str))

\* a run of blanks becomes one blank
RECURSIVE squeeze(_)
squeeze(str) ==
    IF Len(str) < 2 THEN str
    ELSE IF SubSeq(str, 1, 2) = "  " THEN squeeze(SubSeq(str, 2, Len(str)))
    ELSE SubSeq(str, 1, 1) \o squeeze(SubSeq(str, 2, Len(str)))

\* clean_text of a str: whitespace is normalised and the ends are stripped
clean_text(str) == strip(squeeze(str))

\* clean_text(None): the function expects a str; it raises or hands None on
clean_text_of_None == {"TypeError", "None"}

\* a child of divs[0]: a Tag with its .string (None when the tag holds
\* other tags) and its get_text(), or a NavigableString between the tags
Tag(string, text) == [tag |-> TRUE, string |-> string, get_text |-> text]

NavigableString == [tag |-> FALSE, string |-> NoText, get_text |-> ""]

Elements ==
    {Tag(Text("1."), "1."),
     Tag(Text("Sachverhalt:"), "Sachverhalt:"),
     Tag(Text("Das  Gericht "), "Das  Gericht "),
     Tag(NoText, "BGE 137"),
     Tag(Text(" "), " "),
     NavigableString}

\* str(element.string), or element.get_text() when that reads 'None'
text_of(element) ==
    LET text == IF element.string.none THEN "None" ELSE element.string.text
    IN  IF strip(text) = "None" THEN element.get_text ELSE text

\* line 60: a numerated title such as 1. or A.
is_heading(text) == Contains(text, ".") /\ Len(text) < 5

\* lines 60-67: heading and paragraph after the if / else of one Tag
after_branch(heading, paragraph, text) ==
    IF is_heading(text)
    THEN [heading |-> Text(text), paragraph |-> paragraph]
    ELSE [heading |-> NoText,
          paragraph |-> IF ~heading.none THEN Text(heading.text \o " " \o text)
                        ELSE Text(text)]

\* one round of the loop over divs[0]: lines 55-70
GetParagraphsElement(element) ==
    /\ gp_pc = "loop"
    /\ Len(gp_elements) < MaxElements
    /\ gp_elements' = Append(gp_elements, element)
    /\ IF ~element.tag
       THEN UNCHANGED <<gp_heading, gp_paragraph, gp_paragraphs, gp_pc>>
       ELSE \E branch \in {after_branch(gp_heading, gp_paragraph, text_of(element))} :
                /\ gp_heading' = branch.heading
                /\ IF branch.paragraph.none
                   THEN \E outcome \in clean_text_of_None :
                            /\ gp_pc' = IF outcome = "TypeError" THEN "raised" ELSE "loop"
                            /\ gp_paragraph' = NoText
                            /\ UNCHANGED gp_paragraphs
                   ELSE \E cleaned \in {clean_text(branch.paragraph.text)} :
                            /\ gp_paragraph' = Text(cleaned)
                            /\ gp_paragraphs' = IF cleaned \notin {"", " "}
                                                THEN Append(gp_paragraphs, cleaned)
                                                ELSE gp_paragraphs
                            /\ UNCHANGED gp_pc
    /\ UNCHANGED frameParagraphs

\* line 71: return paragraphs
GetParagraphsReturn ==
    /\ gp_pc = "loop"
    /\ gp_pc' = "returned"
    /\ UNCHANGED <<gp_elements, gp_heading, gp_paragraph, gp_paragraphs>>
    /\ UNCHANGED frameParagraphs

InitParagraphs == IdleParagraphs

NextParagraphs ==
    \/ \E element \in Elements : GetParagraphsElement(element)
    \/ GetParagraphsReturn

InitParagraphsOnly ==
    /\ InitParagraphs
    /\ RestIdleParagraphs

SpecParagraphs == InitParagraphsOnly /\ [][NextParagraphs]_vars

\* one paragraph per non-heading Tag, the held heading prefixed, empty
\* paragraphs left out
RECURSIVE one_per_element(_, _)
one_per_element(elements, heading) ==
    IF Len(elements) = 0 THEN <<>>
    ELSE LET element == Head(elements)
             text == text_of(element)
         IN  IF ~element.tag THEN one_per_element(Tail(elements), heading)
             ELSE IF is_heading(text) THEN one_per_element(Tail(elements), Text(text))
             ELSE LET paragraph == clean_text(IF heading.none THEN text
                                               ELSE heading.text \o " " \o text)
                  IN  (IF paragraph \in {"", " "} THEN <<>> ELSE <<paragraph>>)
                      \o one_per_element(Tail(elements), NoText)

\* C21: a short heading emits no paragraph and causes no other paragraph to
\* be emitted: the list get_paragraphs returns holds exactly one paragraph
\* per non-empty non-heading element, in element order
C21_OnePerElement ==
    gp_pc = "returned" => gp_paragraphs = one_per_element(gp_elements, NoText)

(***************************************************************************)
(* PatternExtractor.apply_regex, one base row at a time                    *)
(* (pattern_extractor.py, lines 201-236)                                   *)
(***************************************************************************)
MaxKeywords == 3

\* keywords that survived drop_rows: a word, the word with one and with two
\* more characters, with a blank and two digits, and an unrelated word
RegexKeywords == {"Urteil", "Urteile", "Urteilen", "Urteil 12", "Gericht"}

RegexCounts == {2, 3}

\* the dataframes drop_rows hands to apply_regex: distinct keywords, labels
\* 0, 1, ... after reset_index, every totalcount at least 2
RegexFrame(keywords, counts) ==
    [k \in 1..Len(keywords) |-> [index |-> k - 1, keyword |-> keywords[k],
                                 totalcount |-> counts[k], columns |-> <<>>]]

RegexFrames ==
    UNION {{RegexFrame(keywords, counts) :
               keywords \in {list \in [1..n -> RegexKeywords] :
                                \A h, k \in 1..n : h # k => list[h] # list[k]},
               counts \in [1..n -> RegexCounts]} : n \in 0..MaxKeywords}

InitRegex ==
    /\ rx_before \in RegexFrames
    /\ rx_df = rx_before
    /\ rx_startingIndex = 0
    /\ rx_examined = <<>>
    /\ rx_pc = "loop"

\* one round of the for loop of apply_regex (lines 209-225): the row at
\* position startingIndex is the base of the four variations, and
\* startingIndex moves on by one; after a merge the while loop slices the
\* keywords again from startingIndex
ExamineBase ==
    /\ rx_pc = "loop"
    /\ rx_startingIndex < Len(rx_df)
    /\ \E row \in {rx_df[rx_startingIndex + 1]} :
           /\ rx_df' = apply_variations(rx_df, row.index, row.keyword, 1)
           /\ rx_examined' = Append(rx_examined, row.index)
    /\ rx_startingIndex' = rx_startingIndex + 1
    /\ UNCHANGED <<rx_before, rx_pc>>
    /\ UNCHANGED frameRegex

\* lines 207-208 and 226: no row is left in the slice
ReturnDf ==
    /\ rx_pc = "loop"
    /\ rx_startingIndex >= Len(rx_df)
    /\ rx_pc' = "returned"
    /\ UNCHANGED <<rx_before, rx_df, rx_startingIndex, rx_examined>>
    /\ UNCHANGED frameRegex

NextRegex ==
    \/ ExamineBase
    \/ ReturnDf

InitRegexOnly ==
    /\ InitRegex
    /\ RestIdleRegex

SpecRegex == InitRegexOnly /\ [][NextRegex]_vars

\* the keyword matches one of the four variations built from the base
MatchesVariation(base, keyword) ==
    \E idx \in 1..Len(variations) : regex_match(get_pattern(base, variations[idx]), keyword)

\* no remaining keyword matches a variation built from another one
Fixpoint(df) ==
    \A h, k \in 1..Len(df) : h # k => ~MatchesVariation(df[h].keyword, df[k].keyword)

\* C22: when apply_regex returns a fixpoint has been reached: no remaining
\* keyword matches one of the four variations built from another remaining
\* keyword, and every remaining keyword has been examined as a base
C22_Fixpoint ==
    rx_pc = "returned" =>
        /\ Fixpoint(rx_df)
        /\ \A k \in 1..Len(rx_df) : rx_df[k].index \in Range(rx_examined)

\* the sum of a column over the rows
RECURSIVE sum_totalcount(_)
sum_totalcount(df) ==
    IF Len(df) = 0 THEN 0 ELSE Head(df).totalcount + sum_totalcount(Tail(df))

\* the sum of the variation columns of one row
RECURSIVE sum_columns(_, _)
sum_columns(row, names) ==
    IF names = {} THEN 0
    ELSE LET name == CHOOSE n \in names : TRUE
         IN  row.columns[name] + sum_columns(row, names \ {name})

variation_total(row) == sum_columns(row, DOMAIN row.columns)

\* the row labelled index
row_at(df, index) == df[RowOf(df, index)]

labels_of(df) == {df[k].index : k \in 1..Len(df)}

\* the rows of before that are gone in after
merged_rows(before, after) ==
    LET gone(row) == row.index \notin labels_of(after) IN SelectSeq(before, gone)

\* one base row examined: the rows merged are gone, their totalcounts are
\* added to the base row and to its variation columns, nothing else changes
MergedIntoBase(before, after, base) ==
    /\ labels_of(after) \subseteq labels_of(before)
    /\ base \in labels_of(after)
    /\ row_at(after, base).totalcount =
           row_at(before, base).totalcount + sum_totalcount(merged_rows(before, after))
    /\ variation_total(row_at(after, base)) =
           variation_total(row_at(before, base)) + sum_totalcount(merged_rows(before, after))
    /\ \A index \in labels_of(after) \ {base} :
           /\ row_at(after, index).totalcount = row_at(before, index).totalcount
           /\ variation_total(row_at(after, index)) = variation_total(row_at(before, index))
           /\ row_at(after, index).keyword = row_at(before, index).keyword
    /\ sum_totalcount(after) = sum_totalcount(before)

\* C29: the clustering conserves counts: every step of apply_regex adds the
\* totalcount of each merged row to the one base row and to that row's
\* variation columns, removes the merged rows and no other, never merges the
\* base row into itself, and leaves the sum of totalcount as it was before
\* clustering
C29_CountsConserved ==
    [][/\ rx_df' # rx_df => MergedIntoBase(rx_df, rx_df', rx_df[rx_startingIndex + 1].index)
       /\ sum_totalcount(rx_df') = sum_totalcount(rx_before')]_vars

\* apply_regex returned after two rows were merged into other rows
C29_Witness ==
    /\ rx_pc = "returned"
    /\ Len(rx_df) + 2 = Len(rx_before)
    /\ sum_totalcount(rx_df) = sum_totalcount(rx_before)

(***************************************************************************)
(* PatternExtractor.start_progress (pattern_extractor.py, lines 88-96)     *)
(***************************************************************************)
MaxThousands == 3

\* round(n, -3) of a non-negative int: to the nearest thousand, a tie goes to
\* the even thousand
round_thousands(n) ==
    LET quotient == n \div 1000
        rest == n % 1000
    IN  IF rest < 500 THEN quotient * 1000
        ELSE IF rest > 500 THEN (quotient + 1) * 1000
        ELSE IF quotient % 2 = 0 THEN quotient * 1000
        ELSE (quotient + 1) * 1000

\* start_progress: self.total_to_process after lines 90-95
start_progress(argv_1, true_total) ==
    IF argv_1 # "0"
    THEN IF StrToInt(argv_1) < 1000 /\ true_total > 1000 THEN 1000
         ELSE IF true_total > 1000 THEN round_thousands(StrToInt(argv_1))
         ELSE true_total
    ELSE true_total

\* the caps of the command line: around every thousand and every half
ProgressCaps ==
    {1000 * thousands + rest :
        thousands \in 0..MaxThousands, rest \in {0, 1, 400, 499, 500, 501, 999}}

\* the true totals: none, few, a thousand, and more than a thousand
ProgressTotals == {0, 1, 1000, 1001, 1000 * MaxThousands + 1}

InitProgress ==
    /\ sp_argv \in {IntToStr(cap) : cap \in ProgressCaps}
    /\ sp_true_total \in ProgressTotals
    /\ processed_amount = 0
    /\ total_to_process = 0
    /\ sp_pc = "call"

StartProgress ==
    /\ sp_pc = "call"
    /\ processed_amount' = 0
    /\ total_to_process' = start_progress(sp_argv, sp_true_total)
    /\ sp_pc' = "done"
    /\ UNCHANGED <<sp_argv, sp_true_total>>
    /\ UNCHANGED frameProgress

NextProgress == StartProgress

InitProgressOnly ==
    /\ InitProgress
    /\ RestIdleProgress

SpecProgress == InitProgressOnly /\ [][NextProgress]_vars

\* the cap rounded up to the next multiple of 1000
rounded_up(cap) == ((cap + 999) \div 1000) * 1000

\* C23: with cap 0 or a true total of at most 1000 the rows to process are
\* the true total; with a nonzero cap and a true total above 1000 they are
\* the cap rounded up to the next multiple of 1000
C23_RoundedUp ==
    sp_pc = "done" =>
        total_to_process =
            IF StrToInt(sp_argv) = 0 \/ sp_true_total <= 1000 THEN sp_true_total
            ELSE rounded_up(StrToInt(sp_argv))

(***************************************************************************)
(* The "unknown" bucket of assign_section                                  *)
(***************************************************************************)
\* the language of an export, from its name
ExportLanguage(name) ==
    CHOOSE lang \in PatternLanguages :
        \E k \in 1..Len(spider_list) : export_name(spider_list[k], lang) = name

\* the sections of the language with a marker the keyword matches
MatchedSections(lang, keyword) ==
    {key \in DOMAIN section_patterns[lang] :
        regex_search(section_patterns[lang][key], keyword)}

\* C24 as stated: the unknown bucket holds exactly the surviving keywords
\* that match the marker of no section.
C24_Original ==
    \A name \in DOMAIN pe_exports :
        \A keyword \in FinalKeywords(pe_exports[name]) :
            ("unknown" \in BucketsHolding(pe_exports[name], keyword))
                <=> (MatchedSections(ExportLanguage(name), keyword) = {})

\* C24 amended: the unknown bucket holds exactly the surviving keywords that
\* are placed in no section bucket: those that match no marker, and those of
\* 45 characters or more whose matching markers are all of sections other
\* than rulings.
C24_UnknownIffUnplaced ==
    \A name \in DOMAIN pe_exports :
        \A keyword \in FinalKeywords(pe_exports[name]) :
            ("unknown" \in BucketsHolding(pe_exports[name], keyword))
                <=> \A key \in MatchedSections(ExportLanguage(name), keyword) :
                        key # "rulings" /\ Len(keyword) >= 45

\* a long keyword that matches the facts marker is in unknown, a long one
\* that matches the rulings marker is in rulings, one without a match is in
\* unknown
C24_Witness ==
    \E name \in DOMAIN pe_exports :
        /\ MatchedSections(ExportLanguage(name), "Der Sachverhalt ergibt sich aus den Akten wie")
               = {"facts"}
        /\ BucketsHolding(pe_exports[name], "Der Sachverhalt ergibt sich aus den Akten wie")
               = {"unknown"}
        /\ BucketsHolding(pe_exports[name], "Demnach erkennt das Bundesgericht im Verfahren")
               = {"rulings"}
        /\ BucketsHolding(pe_exports[name], "droits") # {"unknown"}

(***************************************************************************)
(* The version numbers of create_dataset (lines 330-336) and of            *)
(* create_overview (lines 940-951)                                         *)
(***************************************************************************)
MaxVersion == 3

MaxOverviews == 2

\* f"{export_name}_v{version}.csv"
overview_file(base_name, version) == base_name \o "_v" \o IntToStr(version) \o ".csv"

\* lines 941-943: the first version whose overview file does not exist
RECURSIVE free_overview_version(_, _, _)
free_overview_version(files, base_name, version) ==
    IF overview_file(base_name, version) \in DOMAIN files
    THEN free_overview_version(files, base_name, version + 1)
    ELSE version

\* the export folder when the program starts: overview files of earlier
\* runs, with and without gaps in the numbers
OverviewFolders ==
    {[name \in {overview_file("overview", version) : version \in versions} |-> "earlier"] :
        versions \in SUBSET (1..MaxVersion)}

InitOverview ==
    /\ ov_files \in OverviewFolders
    /\ ov_calls = 0

\* create_overview: the rows of the courts are written to the file of the
\* first free version
CreateOverview(base_name) ==
    /\ ov_calls < MaxOverviews
    /\ ov_calls' = ov_calls + 1
    /\ \E version \in {free_overview_version(ov_files, base_name, 1)} :
           ov_files' = (overview_file(base_name, version) :> "courts_data") @@ ov_files
    /\ UNCHANGED frameOverview

\* the arguments of the runs of create_dataset whose export is versioned:
\* the default court, concatenated, a dataset of two rows
VersionedCourtList == [given |-> FALSE, list |-> <<>>]

VersionedPrepared == [court_string \in CourtStrings |-> 2]

NextVersions ==
    \/ \E versions \in SUBSET (1..MaxVersion) :
           StartCreateDataset(VersionedCourtList, TRUE, VersionedPrepared, versions)
    \/ CreateCourt
    \/ FinishCreateDataset
    \/ CreateOverview("overview")

InitVersionsOnly ==
    /\ InitOverview
    /\ RestIdleOverview

SpecVersions == InitVersionsOnly /\ [][NextVersions]_vars

\* the overview versions that exist
overview_versions(files, base_name) ==
    {version \in 1..(MaxVersion + MaxOverviews) :
        overview_file(base_name, version) \in DOMAIN files}

\* no file that existed was written again
NothingOverwritten(before, after) ==
    \A name \in DOMAIN before : name \in DOMAIN after /\ after[name] = before[name]

\* C25 as stated: the version chosen is larger than every version that
\* exists, for any set of existing versions.
C25_Original ==
    [][/\ \A new \in cd_versions' \ cd_versions : \A old \in cd_versions : new > old
       /\ \A new \in overview_versions(ov_files', "overview")
                        \ overview_versions(ov_files, "overview") :
              \A old \in overview_versions(ov_files, "overview") : new > old]_vars

\* C25 amended: the version chosen is the smallest number from 1 on that
\* does not exist yet, so every smaller number exists and no existing
\* version is overwritten; a save adds exactly one version.
C25_FirstFreeVersion ==
    [][/\ Len(cd_saved') > Len(cd_saved) /\ cd_phase' = "done" =>
              \E new \in cd_versions' \ cd_versions :
                  /\ cd_versions' = cd_versions \cup {new}
                  /\ \A smaller \in 1..(new - 1) : smaller \in cd_versions
                  /\ cd_saved'[Len(cd_saved')].path
                         = get_dataset_folder \o "/v" \o IntToStr(new)
       /\ ov_calls' > ov_calls =>
              /\ NothingOverwritten(ov_files, ov_files')
              /\ \E new \in overview_versions(ov_files', "overview")
                               \ overview_versions(ov_files, "overview") :
                     /\ DOMAIN ov_files' = DOMAIN ov_files \cup {overview_file("overview", new)}
                     /\ ov_files'[overview_file("overview", new)] = "courts_data"
                     /\ \A smaller \in 1..(new - 1) :
                            smaller \in overview_versions(ov_files, "overview")]_vars

\* the folders v1 and v3 existed and the export went to v2, and the overview
\* files 1 and 3 existed and the overview went to file 2
C25_Witness ==
    /\ cd_phase = "done"
    /\ cd_versions = {1, 2, 3}
    /\ cd_saved[Len(cd_saved)].path = get_dataset_folder \o "/v2"
    /\ ov_calls = 1
    /\ overview_versions(ov_files, "overview") = {1, 2, 3}
    /\ ov_files[overview_file("overview", 2)] = "courts_data"
    /\ ov_files[overview_file("overview", 1)] = "earlier"
    /\ ov_files[overview_file("overview", 3)] = "earlier"

(***************************************************************************)
(* What get_file_number can return                                         *)
(***************************************************************************)
\* C26: get_file_number returns the canonical form of a member of the
\* known-ruling universe or the canonical form of the parsed query itself,
\* never a citation that is neither
C26_KnownOrQuery ==
    fn_pc = "done" =>
        \/ fn_result \in available_bges
        \/ fn_result = cit_string(RulingCitation(fn_citation))

(***************************************************************************)
(* The scan of a court, decision by decision (pattern_extractor.py,        *)
(* lines 128-158 and 174-187)                                              *)
(***************************************************************************)
MaxScanned == 3

\* the decisions of a scan: language and paragraphs; paragraphs of 3, 5, 6
\* and 80 characters, with and without leading '='
ScanDecisions ==
    {[language |-> "de", paragraphs |-> <<"Urteil", "=abcd">>],
     [language |-> "fr", paragraphs |-> <<"Urteil", "abc">>],
     [language |-> "de",
      paragraphs |-> <<"Urteil", "=====",
                       "Das Bundesgericht hat in der Sache am heutigen Tage wie folgt entschieden: Ende.">>]}

\* process_one_df_row: analyze_structure for one decision of the court
AnalyzeStructure(lang, ps) ==
    /\ pe_pc = "scan"
    /\ court_rows < MaxScanned
    /\ LET stored == count_total_cases(pe_dict, lang)
       IN  pe_dict' = [stored EXCEPT ![lang].dict = count_items(@, no_duplicates(ps)),
                                     ![lang].keys = insert_keys(@, no_duplicates(ps))]
    /\ counter' = (IF currentLanguage # lang THEN 0 ELSE counter) + 1
    /\ currentLanguage' = lang
    /\ court_rows' = court_rows + 1
    /\ seen_in' = [seen_in EXCEPT ![lang] =
                      [k \in DOMAIN @ \cup Candidates(ps) |->
                          (IF k \in DOMAIN @ THEN @[k] ELSE 0)
                          + (IF k \in Candidates(ps) THEN 1 ELSE 0)]]
    /\ sc_decisions' = Append(sc_decisions, [court |-> pe_court, language |-> lang])
    /\ UNCHANGED <<pe_spider, pe_court, pe_exports, processed_courts, pe_pc, sys_argv,
                   completed_courts>>
    /\ UNCHANGED frameAnalyzeStructure

NextScan ==
    \/ StartSpider
    \/ \E decision \in ScanDecisions : AnalyzeStructure(decision.language, decision.paragraphs)
    \/ FinishSpider
    \/ FinishSpiderLoop

InitScanOnly ==
    /\ IdleScan
    /\ RestIdleScan

SpecScan == InitScanOnly /\ [][NextScan]_vars

\* C27: every keyword stored in the accumulator of a language is longer
\* than 4 and shorter than 80 characters, the length taken after the leading
\* '=' run has been stripped
C27_LengthWindow ==
    \A lang \in PatternLanguages :
        \A keyword \in DOMAIN pe_dict[lang].dict : 4 < Len(keyword) /\ Len(keyword) < 80

\* the decisions of the language the court's scan has processed
processed_decisions(decisions, court, lang) ==
    Cardinality({k \in 1..Len(decisions) :
                    decisions[k].court = court /\ decisions[k].language = lang})

\* the coverage fractions of the sheets written for the court and language
coverages_of(exports, name) ==
    IF name \in DOMAIN exports
    THEN UNION {{exports[name].sheets[key][n].coverage : n \in DOMAIN exports[name].sheets[key]} :
                   key \in DOMAIN exports[name].sheets}
    ELSE {}

\* C28: when the scan of the first court has ended, the case count stored for
\* a language is the number of decisions of that language the scan processed,
\* and no coverage written for the court exceeds 100
C28_CaseCounts ==
    (pe_court = 1 /\ pe_pc = "idle") =>
        \A lang \in PatternLanguages :
            /\ pe_dict[lang].count = processed_decisions(sc_decisions, 1, lang)
            /\ \A coverage \in coverages_of(pe_exports, export_name(spider_list[1], lang)) :
                   coverage[1] <= 100 * coverage[2]

(***************************************************************************)
(* save_dataset with sub_datasets: the splits create_sub_datasets is given *)
(* (dataset_creator.py, lines 634-649 and 786-791)                         *)
(***************************************************************************)
\* save_dataset got past create_splits and called create_sub_datasets
SubDatasetsInvoked ==
    /\ ds_pc \in {"saved", "raised"}
    /\ split_type \in {"date-stratified", "all_train"}

\* C30: whenever save_dataset has called create_sub_datasets, the splits it
\* passed hold the "all" split and the call ended without a KeyError,
\* whatever save_reports and the split type are
C30_AllSplitPresent ==
    SubDatasetsInvoked => ("all" \in DOMAIN splits /\ sd_pc = "done")

====
